---- MODULE Spec2Model ----
(***************************************************************************)
(* A model of the Flow value pipeline (class Flow, class FlowContext, the  *)
(* flow factory) together with the part of the host's promise machinery    *)
(* the pipeline relies on: promises, async-function frames suspended at an *)
(* await, the FIFO microtask queue and timers.                             *)
(***************************************************************************)
EXTENDS Integers, Sequences, FiniteSets, TLC

\* ------------------------------------------------------------------ bounds
\* Number of calls of flow and of the chaining operations in a behaviour
\* (each builds one container, unless it throws).
MaxCalls == 3
\* Number of get() calls in a behaviour.
MaxGets == 2

\* ------------------------------------------------------------ JS values
Undef == [t |-> "undefined"]
Null == [t |-> "null"]
Num(n) == [t |-> "number", n |-> n]
NaN == [t |-> "nan"]
\* the result of a string concatenation; its text is not tracked
Str == [t |-> "string"]
Bool(b) == [t |-> "boolean", b |-> b]
Err(e) == [t |-> "error", e |-> e]
PromiseV(id) == [t |-> "promise", id |-> id]
\* an object with a then method that is not an instance of Promise
Thenable == [t |-> "thenable"]
Arr(items) == [t |-> "array", items |-> items]
Sym(s) == [t |-> "symbol", s |-> s]
\* a plain object read as a FunctionCallSpec: its this and args properties
\* (Undef when absent); trap: reading the property this raises Err("E3")
Obj(this, args, trap) == [t |-> "object", this |-> this, args |-> args, trap |-> trap]
\* a function written by the caller; async: declared with the async keyword
Fn(name, async) == [t |-> "function", name |-> name, async |-> async]
\* a closure built by one of the derived operators, with what it captured
Closure(name, async, cap) == [t |-> "function", name |-> name, async |-> async, cap |-> cap]

\* FlowContext.returnOriginal and FlowContext.returnBoth
returnOriginal == Sym("ReturnOriginal")
returnBoth == Sym("ReturnBoth")

\* the typeof operator
TypeOf(v) ==
  CASE v.t = "undefined" -> "undefined"
    [] v.t \in {"number", "nan"} -> "number"
    [] v.t = "string" -> "string"
    [] v.t = "boolean" -> "boolean"
    [] v.t = "symbol" -> "symbol"
    [] v.t = "function" -> "function"
    [] OTHER -> "object"

\* ToBoolean
Truthy(v) ==
  CASE v.t \in {"undefined", "null", "nan"} -> FALSE
    [] v.t = "number" -> v.n # 0
    [] v.t = "boolean" -> v.b
    [] OTHER -> TRUE

\* v + 1
Plus1(v) ==
  CASE v.t = "number" -> [k |-> "ret", v |-> Num(v.n + 1)]
    [] v.t = "null" -> [k |-> "ret", v |-> Num(1)]
    [] v.t \in {"undefined", "nan"} -> [k |-> "ret", v |-> NaN]
    [] v.t = "boolean" -> [k |-> "ret", v |-> Num(IF v.b THEN 2 ELSE 1)]
    [] v.t = "symbol" -> [k |-> "throw", v |-> Err("TypeError")]
    [] OTHER -> [k |-> "ret", v |-> Str]

\* v > 0
GreaterThanZero(v) ==
  CASE v.t = "number" -> v.n > 0
    [] v.t = "boolean" -> v.b
    [] OTHER -> FALSE

\* ------------------------------------------------- pure parts of class Flow
\* isValidFunctionCallSpec(spec): [k |-> "ret", v |-> a boolean], or
\* [k |-> "throw"] when reading spec.this raises
isValidFunctionCallSpec(spec) ==
  IF ~Truthy(spec) \/ TypeOf(spec) # "object"
    THEN [k |-> "ret", v |-> FALSE]
    ELSE IF spec.t # "object"
      \* promises, arrays, thenables: neither property is set
      THEN [k |-> "ret", v |-> FALSE]
      ELSE IF spec.trap
        THEN [k |-> "throw", v |-> Err("E3")]
        ELSE [k |-> "ret", v |-> (spec.this # Undef \/ spec.args.t = "array")]

\* C6 mutant: an argument preparation that puts the value first even when
\* a call specification lists the arguments
prepareTransformationArgsPrepends(value, args) ==
  LET a0 == IF Len(args) >= 1 THEN args[1] ELSE Undef
      valid == IF Truthy(a0) THEN isValidFunctionCallSpec(a0)
                             ELSE [k |-> "ret", v |-> FALSE]
  IN  IF valid.k = "throw"
        THEN [k |-> "throw", v |-> valid.v, context |-> Null, callArgs |-> <<>>]
        ELSE IF valid.v
          THEN [k |-> "ret", v |-> Undef,
                context |-> IF a0.this \in {Undef, Null} THEN Null ELSE a0.this,
                callArgs |-> <<value>> \o
                               (IF a0.args \in {Undef, Null} THEN <<>> ELSE a0.args.items)]
          ELSE [k |-> "ret", v |-> Undef,
                context |-> Null, callArgs |-> <<value>> \o args]

\* prepareTransformationArgs(value, args)
prepareTransformationArgs(value, args) ==
  LET a0 == IF Len(args) >= 1 THEN args[1] ELSE Undef
      valid == IF Truthy(a0) THEN isValidFunctionCallSpec(a0)
                             ELSE [k |-> "ret", v |-> FALSE]
  IN  IF valid.k = "throw"
        THEN [k |-> "throw", v |-> valid.v, context |-> Null, callArgs |-> <<>>]
        ELSE IF valid.v
          THEN [k |-> "ret", v |-> Undef,
                context |-> IF a0.this \in {Undef, Null} THEN Null ELSE a0.this,
                callArgs |-> IF a0.args \in {Undef, Null} THEN <<>> ELSE a0.args.items]
          ELSE [k |-> "ret", v |-> Undef,
                context |-> Null, callArgs |-> <<value>> \o args]

\* C5 mutant: a shaping that ignores the sentinels
determineFinalValueIgnoresSentinel(result, originalValue, args) == result

\* determineFinalValue(result, originalValue, args)
determineFinalValue(result, originalValue, args) ==
  LET lastArgument == IF Len(args) >= 1 THEN args[Len(args)] ELSE Undef
  IN  IF lastArgument = returnOriginal
        THEN originalValue
        ELSE IF lastArgument = returnBoth
          THEN Arr(<<result, originalValue>>)
          ELSE result

\* C10 mutant: a factory test that looks for promises only
IsAsyncSeedPromiseOnly(initialValue) == initialValue.t = "promise"

\* the isAsync test of the factory flow(initialValue)
IsAsyncSeed(initialValue) ==
  \/ initialValue.t = "promise"
  \/ (TypeOf(initialValue) = "function" /\ initialValue.async)

\* ---------------------------------------------------------------- state
VARIABLES
  flows,        \* the Flow objects, in order of construction
  promises,     \* the host's promises: state, value, pending reactions
  frames,       \* activations of async functions suspended at an await
  timers,       \* setTimeout timers not yet fired
  microtasks,   \* the host's FIFO job queue
  currentValue, \* FlowContext.currentValue
  ret,          \* the container the latest flow, chaining or catch call
                \* returned (its number; 0 if the call threw, or before any)
  thrown,       \* number of chaining calls that threw
  got           \* what the get() calls returned: container, rank, value

vars == <<flows, promises, frames, timers, microtasks, currentValue, ret, thrown, got>>

\* the four host structures as one record, threaded through the steps of a call
Heap == [promises |-> promises, frames |-> frames, timers |-> timers, microtasks |-> microtasks]

\* ------------------------------------------------------ host: promises
\* Every operator below takes the value of a step that came before as a
\* parameter, so that each step is written, and evaluated, once.

\* a new promise in state st with value v; its id is the new length
NewPromise(h, st, v) ==
  [h EXCEPT !.promises = Append(@, [st |-> st, v |-> v, rx |-> <<>>])]

LastPromise(h) == Len(h.promises)

\* FulfillPromise / RejectPromise: fix the state and queue the reactions
Settle(h, p, st, v) ==
  [h EXCEPT !.promises[p] = [st |-> st, v |-> v, rx |-> <<>>],
            !.microtasks = @ \o h.promises[p].rx]

\* the resolve function of promise p called with v: a promise or thenable
\* is adopted through a NewPromiseResolveThenableJob, any other value
\* fulfils p at once
ResolveWith(h, p, v) ==
  IF v.t = "promise"
    THEN [h EXCEPT !.microtasks = Append(@, [j |-> "thenjob", id |-> p, w |-> v.id])]
    ELSE IF v.t = "thenable"
      THEN [h EXCEPT !.microtasks = Append(@, [j |-> "thenjob", id |-> p, w |-> 0])]
      ELSE Settle(h, p, "fulfilled", v)

\* Promise.resolve(v) for a v that is no promise: h1 holds the new promise
PromiseResolveNew(h1, v) ==
  [h |-> ResolveWith(h1, LastPromise(h1), v), id |-> LastPromise(h1)]

\* Promise.resolve(v): v itself when it is a promise, else a new promise
\* resolved with v; the result is the heap and the promise's id
PromiseResolve(h, v) ==
  IF v.t = "promise"
    THEN [h |-> h, id |-> v.id]
    ELSE PromiseResolveNew(NewPromise(h, "pending", Undef), v)

\* PerformPromiseThen(w, reaction): queue the reaction if w is settled,
\* else keep it on w
Then(h, w, reaction) ==
  IF h.promises[w].st = "pending"
    THEN [h EXCEPT !.promises[w].rx = Append(@, reaction)]
    ELSE [h EXCEPT !.microtasks = Append(@, reaction)]

\* frame fr suspends on the promise r.id
AwaitOn(r, fr) ==
  Then([r.h EXCEPT !.frames[fr].wait = r.id], r.id, [j |-> "resume", id |-> fr, w |-> r.id])

\* frame fr executes await Promise.resolve(v) (the same steps as await v)
Await(h, fr, v) == AwaitOn(PromiseResolve(h, v), fr)

NewFrame(h, kind, stage, p, value, n) ==
  [h EXCEPT !.frames = Append(@, [kind |-> kind, pc |-> "await", stage |-> stage,
                                  p |-> p, wait |-> 0, value |-> value,
                                  i |-> 0, n |-> n])]

LastFrame(h) == Len(h.frames)

\* ------------------------------------------- functions a caller supplies
\* Argument i of a call, undefined when not passed.
ArgAt(callArgs, i) == IF Len(callArgs) >= i THEN callArgs[i] ELSE Undef

\* The body of a caller's function, by name:
\*   inc   v => v + 1                    boom   () => { throw E1 }
\*   isPos v => v > 0                    eff    v => { (an effect) }
\*   self  function () { return this }   ainc   async v => v + 1
\*   aboom async () => { throw E2 }
UserBody(fn, context, callArgs) ==
  CASE fn.name \in {"inc", "ainc"} -> Plus1(ArgAt(callArgs, 1))
    [] fn.name = "boom" -> [k |-> "throw", v |-> Err("E1")]
    [] fn.name = "aboom" -> [k |-> "throw", v |-> Err("E2")]
    [] fn.name = "isPos" -> [k |-> "ret", v |-> Bool(GreaterThanZero(ArgAt(callArgs, 1)))]
    [] fn.name = "self" -> [k |-> "ret", v |-> context]
    [] OTHER -> [k |-> "ret", v |-> Undef]

\* the promise an async function returns: h1 holds it
AsyncReturned(h1) == [h |-> h1, k |-> "ret", v |-> PromiseV(LastPromise(h1))]

\* the call of a caller's function whose body ended as body: an async
\* function returns a promise settled with the outcome (none of these
\* bodies awaits)
UserReturn(h, fn, body) ==
  IF fn.async
    THEN AsyncReturned(NewPromise(h, IF body.k = "ret" THEN "fulfilled" ELSE "rejected", body.v))
    ELSE [h |-> h, k |-> body.k, v |-> body.v]

\* fn.apply(context, callArgs) for a caller's function
CallUser(h, fn, context, callArgs) == UserReturn(h, fn, UserBody(fn, context, callArgs))

\* ------------------------------- the closures of the derived operators
\* each result carries ev, the calls the closure made

\* C11 mutant: a tap closure that returns what fn returned
TapReturnsResult(r, value) ==
  [h |-> r.h, k |-> r.k, v |-> r.v, ev |-> <<[fn |-> "fn", arg |-> value]>>]

\* tap: (value) => { fn(value); return value }, r: how fn(value) ended
TapReturn(r, value) ==
  [h |-> r.h, k |-> r.k, v |-> IF r.k = "ret" THEN value ELSE r.v,
   ev |-> <<[fn |-> "fn", arg |-> value]>>]

TapBody(h, cap, value) == TapReturn(CallUser(h, cap.fn, Null, <<value>>), value)

\* C13 mutant: a filter closure that fails on a value that does not match
FilterRejects(r, value) ==
  [h |-> r.h, k |-> IF r.k = "ret" /\ Truthy(r.v) THEN "ret" ELSE "throw",
   v |-> IF r.k = "ret" THEN value ELSE r.v,
   ev |-> <<[fn |-> "predicate", arg |-> value]>>]

\* filter: (value) => predicate(value) ? value : null, r: how
\* predicate(value) ended
FilterReturn(r, value) ==
  [h |-> r.h, k |-> r.k,
   v |-> IF r.k = "ret" THEN (IF Truthy(r.v) THEN value ELSE Null) ELSE r.v,
   ev |-> <<[fn |-> "predicate", arg |-> value]>>]

FilterBody(h, cap, value) == FilterReturn(CallUser(h, cap.predicate, Null, <<value>>), value)

\* when, lines 159 to 162: r is how the chosen branch function ended
WhenReturn(r, ev) == [h |-> r.h, k |-> r.k, v |-> r.v, ev |-> ev]

\* C12 mutant: a when closure that runs thenFn whatever the condition gave
WhenBranchAlwaysThen(c, cap, value, ev) ==
  IF c.k = "throw"
    THEN [h |-> c.h, k |-> "throw", v |-> c.v, ev |-> ev]
    ELSE WhenReturn(CallUser(c.h, cap.thenFn, Null, <<value>>),
                    Append(ev, [fn |-> "thenFn", arg |-> value]))

\* when, after line 158: c is how the condition was evaluated
WhenBranch(c, cap, value, ev) ==
  IF c.k = "throw"
    THEN [h |-> c.h, k |-> "throw", v |-> c.v, ev |-> ev]
    ELSE IF Truthy(c.v)
      THEN WhenReturn(CallUser(c.h, cap.thenFn, Null, <<value>>),
                      Append(ev, [fn |-> "thenFn", arg |-> value]))
      ELSE IF Truthy(cap.elseFn)
        THEN WhenReturn(CallUser(c.h, cap.elseFn, Null, <<value>>),
                        Append(ev, [fn |-> "elseFn", arg |-> value]))
        ELSE [h |-> c.h, k |-> "ret", v |-> value, ev |-> ev]

\* when: the condition is called if it is a function; then thenFn, or
\* elseFn if there is one, or the value itself
WhenBody(h, cap, value) ==
  IF TypeOf(cap.condition) = "function"
    THEN WhenBranch(CallUser(h, cap.condition, Null, <<value>>), cap, value,
                    <<[fn |-> "condition", arg |-> value]>>)
    ELSE WhenBranch([h |-> h, k |-> "ret", v |-> cap.condition], cap, value, <<>>)

\* delay, suspended at its await: h4 holds the function's promise, then the
\* timer's promise, and the frame
DelaySuspend(h4) ==
  [h |-> Then([h4 EXCEPT !.frames[LastFrame(h4)].wait = LastPromise(h4)],
              LastPromise(h4),
              [j |-> "resume", id |-> LastFrame(h4), w |-> LastPromise(h4)]),
   k |-> "ret", v |-> PromiseV(LastPromise(h4) - 1), ev |-> <<>>]

\* delay, at setTimeout(resolve, ms): h2 holds the two promises
DelayTimer(h2, cap, value, stage) ==
  DelaySuspend(NewFrame([h2 EXCEPT !.timers = Append(@, [p |-> LastPromise(h2), ms |-> cap.ms])],
                        "delay", stage, LastPromise(h2) - 1, value, 0))

\* delay: async (value) => { await new Promise(resolve => setTimeout(resolve, ms));
\* return value }: runs up to the await and returns the function's promise
DelayBody(h, cap, value, stage) ==
  DelayTimer(NewPromise(NewPromise(h, "pending", Undef), "pending", Undef), cap, value, stage)

\* retry, at its first await: h2 holds the function's promise q and the frame
RetrySuspend(h2, q, value) ==
  [h |-> Await(h2, LastFrame(h2), value), k |-> "ret", v |-> PromiseV(q), ev |-> <<>>]

\* retry whose loop body runs once even for attempts <= 0
RetryLoopAtLeastOnce(h1, cap, value, stage) ==
  RetrySuspend(NewFrame(h1, "retry", stage, LastPromise(h1), value, cap.attempts),
               LastPromise(h1), value)

\* retry, entered: h1 holds the function's promise
RetryLoop(h1, cap, value, stage) ==
  IF 0 < cap.attempts
    THEN RetrySuspend(NewFrame(h1, "retry", stage, LastPromise(h1), value, cap.attempts),
                      LastPromise(h1), value)
    ELSE [h |-> Settle(h1, LastPromise(h1), "fulfilled", Undef),
          k |-> "ret", v |-> PromiseV(LastPromise(h1)), ev |-> <<>>]

\* retry: async (value) => { for (i = 0; i < attempts; i++) try { return await
\* Promise.resolve(value) } catch ... }: runs up to the first await, or to
\* the end when the loop body never runs
RetryBody(h, cap, value, stage) ==
  RetryLoop(NewPromise(h, "pending", Undef), cap, value, stage)

\* transformer.apply(context, callArgs) for any function value
CallFunction(h, fn, context, callArgs, stage) ==
  IF "cap" \notin DOMAIN fn
    THEN WhenReturn(CallUser(h, fn, context, callArgs), <<>>)
    ELSE CASE fn.name = "tap" -> TapBody(h, fn.cap, ArgAt(callArgs, 1))
           [] fn.name = "filter" -> FilterBody(h, fn.cap, ArgAt(callArgs, 1))
           [] fn.name = "when" -> WhenBody(h, fn.cap, ArgAt(callArgs, 1))
           [] fn.name = "delay" -> DelayBody(h, fn.cap, ArgAt(callArgs, 1), stage)
           [] fn.name = "retry" -> RetryBody(h, fn.cap, ArgAt(callArgs, 1), stage)

\* the transformer was invoked n times, the last invocation ending as r
Invoked(r, n) == [h |-> r.h, k |-> r.k, v |-> r.v, ev |-> r.ev, n |-> n]

\* C7 mutant: an execution that applies the transformer a second time
executeTransformationTwice(h, transformer, context, callArgs, stage) ==
  IF TypeOf(transformer) = "function"
    THEN Invoked(CallFunction(h, transformer, context, callArgs, stage), 2)
    ELSE [h |-> h, k |-> "ret", v |-> transformer, ev |-> <<>>, n |-> 0]

\* executeTransformation(transformer, context, callArgs); n: how often the
\* transformer was invoked
executeTransformation(h, transformer, context, callArgs, stage) ==
  IF TypeOf(transformer) = "function"
    THEN Invoked(CallFunction(h, transformer, context, callArgs, stage), 1)
    ELSE [h |-> h, k |-> "ret", v |-> transformer, ev |-> <<>>, n |-> 0]

\* ------------------------------------------------------------ class Flow
\* the default value of the field errorHandler
noop == [kind |-> "noop", owner |-> 0]

\* new Flow(initialValue, isAsync). Beside the three fields of the class the
\* record keeps a history of the stage that built the object: the container
\* and operation it came from (src, op), the transformer and extra arguments
\* (tr, args), how often the transformer was invoked (calls) with which
\* binding and arguments (context, callArgs), the pre-transform value and
\* computed result (orig, res), the steps done so far and those done before
\* pipe returned (done, eager), the failure (phase, err), the calls the
\* closure of a derived operator made (ev), and on the source side the
\* handler invocations of its failing pipe calls (hlog).
Flow(initialValue, isAsync) ==
  [value |-> initialValue, isAsync |-> isAsync, errorHandler |-> noop,
   src |-> 0, op |-> "flow", tr |-> Undef, args |-> <<>>,
   calls |-> 0, context |-> Undef, callArgs |-> <<>>,
   orig |-> Undef, res |-> Undef, done |-> {}, eager |-> {},
   phase |-> "seed", err |-> Undef, ev |-> <<>>, hlog |-> <<>>]

\* C14 mutant: a stage record that counts the transformer call again when
\* the call ends
CalledAgain(f, value, prep, exec, steps) ==
  [f EXCEPT !.calls = @ + exec.n + 1, !.orig = value,
            !.context = prep.context, !.callArgs = prep.callArgs,
            !.ev = exec.ev, !.done = steps]

\* the history of a stage whose transformer call ended as exec
Called(f, value, prep, exec, steps) ==
  [f EXCEPT !.calls = @ + exec.n, !.orig = value,
            !.context = prep.context, !.callArgs = prep.callArgs,
            !.ev = exec.ev, !.done = steps]

\* handleSyncTransformation, lines 59 and 60 (or the throw of line 58)
syncShape(value, args, prep, exec) ==
  IF exec.k = "throw"
    THEN [k |-> "throw", v |-> exec.v, h |-> exec.h,
          f |-> [Called(Flow(Undef, FALSE), value, prep, exec, {"prepare"})
                   EXCEPT !.eager = {"prepare"}]]
    ELSE [k |-> "ret", v |-> Undef, h |-> exec.h,
          f |-> [Called(Flow(determineFinalValue(exec.v, value, args), FALSE),
                        value, prep, exec, {"prepare", "execute", "shape"})
                   EXCEPT !.res = exec.v, !.phase = "ok",
                          !.eager = {"prepare", "execute", "shape"}]]

\* handleSyncTransformation, line 58 (or the throw of line 57)
syncExecute(h, value, transformer, args, stage, prep) ==
  IF prep.k = "throw"
    THEN [k |-> "throw", v |-> prep.v, h |-> h,
          f |-> [Flow(Undef, FALSE) EXCEPT !.orig = value]]
    ELSE syncShape(value, args, prep,
                   executeTransformation(h, transformer, prep.context, prep.callArgs, stage))

\* handleSyncTransformation(transformer, args) on container c, building
\* container number stage: [k |-> "ret", f |-> the new Flow], or
\* [k |-> "throw", v |-> the error, f |-> the history of the failed stage]
handleSyncTransformation(h, c, transformer, args, stage) ==
  syncExecute(h, flows[c].value, transformer, args, stage,
              prepareTransformationArgs(flows[c].value, args))

\* handleAsyncTransformation, line 73: h2 holds the promise of
\* asyncTransform() and its frame, which runs up to its first await
asyncStart(h2, c) ==
  [k |-> "ret", v |-> Undef, h |-> Await(h2, LastFrame(h2), flows[c].value),
   f |-> [Flow(PromiseV(LastPromise(h2)), flows[c].isAsync) EXCEPT !.phase = "pending"]]

\* C8 mutant: a deferred transformation that runs the stage inside pipe
handleAsyncTransformationEager(h, c, transformer, args, stage) ==
  handleSyncTransformation(h, c, transformer, args, stage)

\* handleAsyncTransformation(transformer, args) on container c: the promise
\* of asyncTransform() is wrapped in the new Flow
handleAsyncTransformation(h, c, transformer, args, stage) ==
  asyncStart(NewFrame(NewPromise(h, "pending", Undef), "transform", stage,
                      LastPromise(h) + 1, Undef, 0), c)

\* errorHandler(error): a handler of kind hThrow raises E4, the others
\* (the default included) return
CallHandler(handler, error) ==
  IF handler.kind = "hThrow" THEN [k |-> "throw", v |-> Err("E4")]
                             ELSE [k |-> "ret", v |-> Undef]

\* C3 mutant: a try block that runs every stage on the synchronous path
pipeTryAlwaysSync(h, c, transformer, args, stage) ==
  handleSyncTransformation(h, c, transformer, args, stage)

\* a try block that awaits the payload on every path
pipeTryAlwaysAsync(h, c, transformer, args, stage) ==
  handleAsyncTransformation(h, c, transformer, args, stage)

\* the try block of pipe on container c (lines 41 to 45)
pipeTry(h, c, transformer, args, stage) ==
  IF ~flows[c].isAsync
    THEN handleSyncTransformation(h, c, transformer, args, stage)
    ELSE handleAsyncTransformation(h, c, transformer, args, stage)

\* C1 mutant: a catch block that builds the container in the other mode
pipeCaughtOtherMode(c, error, failed) ==
  [failed EXCEPT !.value = Undef, !.isAsync = ~flows[c].isAsync,
                 !.errorHandler = noop, !.phase = "caught", !.err = error]

\* C2 mutant: a catch block that wraps the error instead of undefined
pipeCaughtKeepsError(c, error, failed) ==
  [failed EXCEPT !.value = error, !.isAsync = flows[c].isAsync,
                 !.errorHandler = noop, !.phase = "caught", !.err = error]

\* C4 mutant: a catch block whose container inherits the handler
pipeCaughtInheritsHandler(c, error, failed) ==
  [failed EXCEPT !.value = Undef, !.isAsync = flows[c].isAsync,
                 !.errorHandler = flows[c].errorHandler, !.phase = "caught", !.err = error]

\* the container the catch block of pipe on container c builds (line 48),
\* with the history of the failed stage
pipeCaught(c, error, failed) ==
  [failed EXCEPT !.value = Undef, !.isAsync = flows[c].isAsync,
                 !.errorHandler = noop, !.phase = "caught", !.err = error]

SetHeap(h) ==
  /\ promises' = h.promises
  /\ frames' = h.frames
  /\ timers' = h.timers
  /\ microtasks' = h.microtasks

\* a failing pipe that invokes the default handler whatever was registered
LoggedDefault(c, error, threw) ==
  [flows EXCEPT ![c].hlog = Append(@, [h |-> noop, e |-> error, threw |-> threw])]

\* the source container c with one more handler invocation on record
Logged(c, error, threw) ==
  [flows EXCEPT ![c].hlog = Append(@, [h |-> flows[c].errorHandler, e |-> error,
                                       threw |-> threw])]

\* the record of a new stage with where it came from
History(f, c, op, transformer, args) ==
  [f EXCEPT !.src = c, !.op = op, !.tr = transformer, !.args = args]

\* pipe on container c, from the end r of its try block: return the new
\* container, or run the catch block (lines 46 to 49)
pipeEnd(c, op, transformer, args, r) ==
  /\ SetHeap(r.h)
  /\ IF r.k = "ret"
       THEN /\ flows' = Append(flows, History(r.f, c, op, transformer, args))
            /\ ret' = Len(flows) + 1
            /\ thrown' = thrown
       ELSE IF CallHandler(flows[c].errorHandler, r.v).k = "throw"
         THEN /\ flows' = Logged(c, r.v, TRUE)
              /\ ret' = 0
              /\ thrown' = thrown + 1
         ELSE /\ flows' = Append(Logged(c, r.v, FALSE),
                                 History(pipeCaught(c, r.v, r.f), c, op, transformer, args))
              /\ ret' = Len(flows) + 1
              /\ thrown' = thrown

\* pipe(transformer, ...args) on container c, called through operation op
pipe(c, op, transformer, args) ==
  /\ Len(flows) + thrown < MaxCalls
  /\ currentValue' = flows[c].value
  /\ pipeEnd(c, op, transformer, args, pipeTry(Heap, c, transformer, args, Len(flows) + 1))
  /\ UNCHANGED got

\* Promise.resolve(this.value) as get() returns it
getPromise(r) == [h |-> r.h, v |-> PromiseV(r.id)]

\* what get() returns on container c: the heap after, and the value
getValue(h, c) ==
  IF flows[c].isAsync
    THEN getPromise(PromiseResolve(h, flows[c].value))
    ELSE [h |-> h, v |-> flows[c].value]

\* the k-th get() on container c returned r.v
getEnd(c, r) ==
  /\ got' = got \cup {[c |-> c, k |-> Cardinality({g \in got : g.c = c}) + 1, v |-> r.v]}
  /\ SetHeap(r.h)

\* get() on container c
get(c) ==
  /\ Cardinality(got) < MaxGets
  /\ getEnd(c, getValue(Heap, c))
  /\ UNCHANGED <<flows, currentValue, ret, thrown>>

\* catch(errorHandler) on container c; the handler is a function made for
\* this call, of one of the kinds h1 (returns) and hThrow (raises)
catch(c, kind) ==
  /\ flows' = [flows EXCEPT ![c].errorHandler = [kind |-> kind, owner |-> c]]
  /\ ret' = c
  /\ UNCHANGED <<promises, frames, timers, microtasks, currentValue, thrown, got>>

tap(c, fn) == pipe(c, "tap", Closure("tap", FALSE, [fn |-> fn]), <<>>)

map(c, fn) == pipe(c, "map", fn, <<>>)

filter(c, predicate) ==
  pipe(c, "filter", Closure("filter", FALSE, [predicate |-> predicate]), <<>>)

delay(c, ms) == pipe(c, "delay", Closure("delay", TRUE, [ms |-> ms]), <<>>)

retry(c, attempts) ==
  pipe(c, "retry", Closure("retry", TRUE, [attempts |-> attempts]), <<>>)

when(c, condition, thenFn, elseFn) ==
  pipe(c, "when",
       Closure("when", FALSE, [condition |-> condition, thenFn |-> thenFn, elseFn |-> elseFn]),
       <<>>)

\* flow(initialValue), for a seed that is not a promise
flow(initialValue) ==
  /\ Len(flows) + thrown < MaxCalls
  /\ flows' = Append(flows, Flow(initialValue, IsAsyncSeed(initialValue)))
  /\ ret' = Len(flows) + 1
  /\ UNCHANGED <<promises, frames, timers, microtasks, currentValue, thrown, got>>

\* flow(p) for a promise the caller has just made: Promise.resolve(v),
\* Promise.reject(v), or a promise still pending (st)
flowPromise(st, v) ==
  /\ Len(flows) + thrown < MaxCalls
  /\ promises' = Append(promises, [st |-> st, v |-> v, rx |-> <<>>])
  /\ flows' = Append(flows, Flow(PromiseV(Len(promises) + 1),
                                 IsAsyncSeed(PromiseV(Len(promises) + 1))))
  /\ ret' = Len(flows) + 1
  /\ UNCHANGED <<frames, timers, microtasks, currentValue, thrown, got>>

\* ------------------------------------------------------ host: job queue
\* the heap once the job at the head of the queue has been taken
Dequeued == [Heap EXCEPT !.microtasks = Tail(@)]

HeadIs(j) == microtasks # <<>> /\ Head(microtasks).j = j

HeadResumes(kind, pc) ==
  /\ HeadIs("resume")
  /\ frames[Head(microtasks).id].kind = kind
  /\ frames[Head(microtasks).id].pc = pc

\* asyncTransform ends by throwing e
asyncReject(h, fr, e) ==
  Settle([h EXCEPT !.frames[fr].pc = "done"], h.frames[fr].p, "rejected", e)

\* asyncTransform without the await of line 70: the stage ends with the
\* transformer's result as it is
asyncReturnResult(fr, st, value, prep, exec) ==
  IF exec.k = "throw"
    THEN [h |-> asyncReject(exec.h, fr, exec.v),
          f |-> [Called(st, value, prep, exec, {"prepare"})
                   EXCEPT !.phase = "rejected", !.err = exec.v]]
    ELSE [h |-> Settle([exec.h EXCEPT !.frames[fr].pc = "done"], exec.h.frames[fr].p,
                       "fulfilled", exec.v),
          f |-> [Called(st, value, prep, exec, {"prepare", "execute", "shape"})
                   EXCEPT !.phase = "ok", !.res = exec.v]]

\* asyncTransform, line 70: suspend on the result exec of the transformer
\* call, or end if it threw
asyncAwaitResult(fr, st, value, prep, exec) ==
  IF exec.k = "throw"
    THEN [h |-> asyncReject(exec.h, fr, exec.v),
          f |-> [Called(st, value, prep, exec, {"prepare"})
                   EXCEPT !.phase = "rejected", !.err = exec.v]]
    ELSE [h |-> Await([exec.h EXCEPT !.frames[fr].pc = "awaitResult",
                                     !.frames[fr].value = value],
                      fr, exec.v),
          f |-> [Called(st, value, prep, exec, {"prepare", "execute"})
                   EXCEPT !.phase = "awaiting"]]

\* asyncTransform, lines 69 and 70, with the settled value of line 68
asyncExecute(h, fr, st, value, prep) ==
  IF prep.k = "throw"
    THEN [h |-> asyncReject(h, fr, prep.v),
          f |-> [st EXCEPT !.phase = "rejected", !.err = prep.v, !.orig = value]]
    ELSE asyncAwaitResult(fr, st, value, prep,
           executeTransformation(h, st.tr, prep.context, prep.callArgs, h.frames[fr].stage))

\* asyncTransform that goes on with the error as the value when the source
\* has rejected
asyncTransformSourceContinues(h, fr) ==
  asyncExecute(h, fr, flows[h.frames[fr].stage], h.promises[h.frames[fr].wait].v,
               prepareTransformationArgs(h.promises[h.frames[fr].wait].v,
                                         flows[h.frames[fr].stage].args))

\* asyncTransform resumed at its first await (line 68), run to its second
\* await (line 70) or to its end: the heap after, and the stage's history
asyncTransformSource(h, fr) ==
  IF h.promises[h.frames[fr].wait].st = "rejected"
    THEN [h |-> asyncReject(h, fr, h.promises[h.frames[fr].wait].v),
          f |-> [flows[h.frames[fr].stage] EXCEPT
                   !.phase = "rejected", !.err = h.promises[h.frames[fr].wait].v]]
    ELSE asyncExecute(h, fr, flows[h.frames[fr].stage], h.promises[h.frames[fr].wait].v,
                      prepareTransformationArgs(h.promises[h.frames[fr].wait].v,
                                                flows[h.frames[fr].stage].args))

\* asyncTransform resumed at its second await (line 70) and run to its end
\* (line 71)
asyncTransformResult(h, fr) ==
  IF h.promises[h.frames[fr].wait].st = "rejected"
    THEN [h |-> asyncReject(h, fr, h.promises[h.frames[fr].wait].v),
          f |-> [flows[h.frames[fr].stage] EXCEPT
                   !.phase = "rejected", !.err = h.promises[h.frames[fr].wait].v]]
    ELSE [h |-> ResolveWith([h EXCEPT !.frames[fr].pc = "done"], h.frames[fr].p,
                            determineFinalValue(h.promises[h.frames[fr].wait].v,
                                                h.frames[fr].value,
                                                flows[h.frames[fr].stage].args)),
          f |-> [flows[h.frames[fr].stage] EXCEPT
                   !.phase = "ok", !.res = h.promises[h.frames[fr].wait].v,
                   !.done = {"prepare", "execute", "shape"}]]

\* the heap and the stage's history after a step r of asyncTransform
StageStep(stage, r) ==
  /\ SetHeap(r.h)
  /\ flows' = [flows EXCEPT ![stage] = r.f]

\* the job at the head of the queue resumes asyncTransform at line 68
ResumeTransformSource ==
  /\ HeadResumes("transform", "await")
  /\ StageStep(frames[Head(microtasks).id].stage,
               asyncTransformSource(Dequeued, Head(microtasks).id))
  /\ UNCHANGED <<currentValue, ret, thrown, got>>

\* the job at the head of the queue resumes asyncTransform at line 70
ResumeTransformResult ==
  /\ HeadResumes("transform", "awaitResult")
  /\ StageStep(frames[Head(microtasks).id].stage,
               asyncTransformResult(Dequeued, Head(microtasks).id))
  /\ UNCHANGED <<currentValue, ret, thrown, got>>

\* the closure of delay resumed after its await: return value
delayResume(h, fr) ==
  ResolveWith([h EXCEPT !.frames[fr].pc = "done"], h.frames[fr].p, h.frames[fr].value)

ResumeDelay ==
  /\ HeadResumes("delay", "await")
  /\ SetHeap(delayResume(Dequeued, Head(microtasks).id))
  /\ UNCHANGED <<flows, currentValue, ret, thrown, got>>

\* retry that gives up at the first rejection
retryResumeOnce(h, fr) ==
  IF h.promises[h.frames[fr].wait].st = "fulfilled"
    THEN Settle([h EXCEPT !.frames[fr].pc = "done"], h.frames[fr].p, "fulfilled",
                h.promises[h.frames[fr].wait].v)
    ELSE Settle([h EXCEPT !.frames[fr].pc = "done", !.frames[fr].i = @ + 1],
                h.frames[fr].p, "rejected", h.promises[h.frames[fr].wait].v)

\* the closure of retry resumed at its await: return the awaited value, or
\* in the catch block rethrow on the last attempt and loop otherwise
retryResume(h, fr) ==
  IF h.promises[h.frames[fr].wait].st = "fulfilled"
    THEN Settle([h EXCEPT !.frames[fr].pc = "done"], h.frames[fr].p, "fulfilled",
                h.promises[h.frames[fr].wait].v)
    ELSE IF h.frames[fr].i = h.frames[fr].n - 1
      THEN Settle([h EXCEPT !.frames[fr].pc = "done", !.frames[fr].i = @ + 1],
                  h.frames[fr].p, "rejected", h.promises[h.frames[fr].wait].v)
      ELSE Await([h EXCEPT !.frames[fr].i = @ + 1], fr, h.frames[fr].value)

ResumeRetry ==
  /\ HeadResumes("retry", "await")
  /\ SetHeap(retryResume(Dequeued, Head(microtasks).id))
  /\ UNCHANGED <<flows, currentValue, ret, thrown, got>>

\* NewPromiseResolveThenableJob: call then on the value promise id was
\* resolved with; the thenable of this model calls back at once with 1
thenJob(h, job) ==
  IF job.w = 0
    THEN Settle(h, job.id, "fulfilled", Num(1))
    ELSE Then(h, job.w, [j |-> "adopt", id |-> job.id, w |-> job.w])

RunThenJob ==
  /\ HeadIs("thenjob")
  /\ SetHeap(thenJob(Dequeued, Head(microtasks)))
  /\ UNCHANGED <<flows, currentValue, ret, thrown, got>>

\* the reaction that settles promise id as the promise it adopted settled
RunAdopt ==
  /\ HeadIs("adopt")
  /\ SetHeap(Settle(Dequeued, Head(microtasks).id,
                    promises[Head(microtasks).w].st, promises[Head(microtasks).w].v))
  /\ UNCHANGED <<flows, currentValue, ret, thrown, got>>

\* a timer fires: only between jobs, and not before an older timer that is
\* due no later; its callback is the resolve function of the delay's promise
FireTimer ==
  /\ microtasks = <<>>
  /\ \E i \in 1..Len(timers) :
       /\ \A j \in 1..(i - 1) : timers[j].ms > timers[i].ms
       /\ SetHeap(Settle([Heap EXCEPT !.timers = SubSeq(@, 1, i - 1) \o SubSeq(@, i + 1, Len(@))],
                         timers[i].p, "fulfilled", Undef))
  /\ UNCHANGED <<flows, currentValue, ret, thrown, got>>

\* the owner of a pending seed promise settles it
SettleSeed ==
  /\ \E c \in 1..Len(flows), o \in {[st |-> "fulfilled", v |-> Num(1)],
                                    [st |-> "rejected", v |-> Err("E0")]} :
       /\ flows[c].op = "flow"
       /\ flows[c].value.t = "promise"
       /\ promises[flows[c].value.id].st = "pending"
       /\ SetHeap(Settle(Heap, flows[c].value.id, o.st, o.v))
  /\ UNCHANGED <<flows, currentValue, ret, thrown, got>>

\* ---------------------------------------------------------- behaviours
\* the module has been loaded: no container exists yet
Init ==
  /\ flows = <<>>
  /\ promises = <<>>
  /\ frames = <<>>
  /\ timers = <<>>
  /\ microtasks = <<>>
  /\ currentValue = Undef
  /\ ret = 0
  /\ thrown = 0
  /\ got = {}

Containers == 1..Len(flows)

\* The callers of each specification draw their inputs from these sets.
\* Functions: inc, boom, isPos, eff, self and the async ainc, aboom.
Inc == Fn("inc", FALSE)
Boom == Fn("boom", FALSE)
AInc == Fn("ainc", TRUE)
ABoom == Fn("aboom", TRUE)

\* the continuations of asyncTransform
Jobs == ResumeTransformSource \/ ResumeTransformResult

\* --- Spec: chains of pipe stages with sentinels, in both modes
Create ==
  \/ flow(Num(1))
  \/ flowPromise("fulfilled", Num(1))
  \/ flowPromise("rejected", Err("E0"))
  \/ flowPromise("pending", Undef)

Pipe ==
  \E c \in Containers, tr \in {Inc, Boom, AInc, Num(7)},
     a \in {<<>>, <<returnOriginal>>, <<returnBoth>>} :
    pipe(c, "pipe", tr, a)

Next == Create \/ Pipe \/ Jobs \/ SettleSeed

Spec == Init /\ [][Next]_vars

\* --- SpecOps: chains of the derived operators, in both modes
CreateOps ==
  \/ flow(Num(1))
  \/ flowPromise("fulfilled", Num(1))
  \/ flowPromise("rejected", Err("E0"))

PipeOps == \E c \in Containers : pipe(c, "pipe", Boom, <<>>)

Tap == \E c \in Containers : tap(c, Fn("eff", FALSE))

Map == \E c \in Containers : map(c, Inc)

Filter == \E c \in Containers : filter(c, Fn("isPos", FALSE))

Delay == \E c \in Containers, ms \in {0, 1} : delay(c, ms)

Retry == \E c \in Containers : retry(c, 2)

When == \E c \in Containers : when(c, Fn("isPos", FALSE), AInc, Undef)

NextOps ==
  \/ CreateOps \/ PipeOps \/ Tap \/ Map \/ Filter \/ Delay \/ Retry \/ When
  \/ Jobs \/ ResumeDelay \/ ResumeRetry \/ RunThenJob \/ RunAdopt \/ FireTimer

SpecOps == Init /\ [][NextOps]_vars

\* --- SpecCatch: failing stages and registered handlers, immediate mode
\* an object whose property this raises when read
Trap == Obj(Undef, Undef, TRUE)

CreateCatch == flow(Num(1))

PipeCatch ==
  \E c \in Containers, call \in {<<Inc, <<>> >>, <<Boom, <<>> >>, <<Inc, <<Trap>> >>} :
    pipe(c, "pipe", call[1], call[2])

Catch == \E c \in Containers, kind \in {"h1", "hThrow"} : catch(c, kind)

NextCatch == CreateCatch \/ PipeCatch \/ Catch

SpecCatch == Init /\ [][NextCatch]_vars

\* --- SpecDeferred: failing stages and registered handlers, deferred mode
CreateDeferred ==
  \/ flowPromise("fulfilled", Num(1))
  \/ flowPromise("rejected", Err("E0"))

PipeDeferred ==
  \E c \in Containers,
     call \in {<<Inc, <<>> >>, <<Boom, <<>> >>, <<ABoom, <<>> >>, <<Inc, <<Trap>> >>} :
    pipe(c, "pipe", call[1], call[2])

CatchDeferred == \E c \in Containers : catch(c, "h1")

NextDeferred == CreateDeferred \/ PipeDeferred \/ CatchDeferred \/ Jobs

SpecDeferred == Init /\ [][NextDeferred]_vars

\* --- SpecArgs: one stage on each seed, with every shape of extra arguments
Ctx == [t |-> "context"]

\* objects of type FunctionCallSpec (lines 1 to 4), and the empty object
CallSpecs ==
  {Obj(th, ar, FALSE) : th \in {Undef, Null, Ctx},
                        ar \in {Undef, Null, Arr(<<>>), Arr(<<Num(3)>>)}} \cup {Trap}

ArgLists ==
  {<<>>, <<Num(9)>>, <<returnOriginal>>, <<returnBoth>>, <<Num(9), returnBoth>>}
    \cup {<<o>> : o \in CallSpecs}
    \cup {<<o, y>> : o \in CallSpecs, y \in {returnOriginal, returnBoth}}

CreateArgs ==
  \/ flow(Num(1))
  \/ flowPromise("fulfilled", Num(1))

\* the seeds no stage has been piped on yet
Fresh == {c \in Containers : flows[c].op = "flow" /\ \A f \in Containers : flows[f].src # c}

PipeArgs ==
  \E c \in Fresh, tr \in {Inc, Fn("self", FALSE)}, a \in ArgLists : pipe(c, "pipe", tr, a)

NextArgs == CreateArgs \/ PipeArgs \/ Jobs

SpecArgs == Init /\ [][NextArgs]_vars

\* --- SpecFactory: every kind of seed
CreateAny ==
  \/ \E v \in {Num(1), Undef, Null, Inc, AInc, Thenable, Arr(<<>>)} : flow(v)
  \/ flowPromise("fulfilled", Num(1))
  \/ flowPromise("rejected", Err("E0"))
  \/ flowPromise("pending", Undef)

PipeFactory == \E c \in Containers, tr \in {Inc, AInc} : pipe(c, "pipe", tr, <<>>)

NextFactory == CreateAny \/ PipeFactory \/ Jobs \/ SettleSeed

SpecFactory == Init /\ [][NextFactory]_vars

\* --- SpecGet: resolution, repeated and interleaved with the stages
CreateGet ==
  \/ \E v \in {Num(1), AInc} : flow(v)
  \/ flowPromise("fulfilled", Num(1))
  \/ flowPromise("rejected", Err("E0"))

PipeGet ==
  \E c \in Containers,
     call \in {<<Inc, <<>> >>, <<Inc, <<Trap>> >>} :
    pipe(c, "pipe", call[1], call[2])

Get == \E c \in Containers : get(c)

NextGet == CreateGet \/ PipeGet \/ Get \/ Jobs

SpecGet == Init /\ [][NextGet]_vars

\* --- SpecTap: chains of tap stages, in both modes
CreateTap ==
  \/ \E v \in {Num(1), Null} : flow(v)
  \/ flowPromise("fulfilled", Num(1))

TapAny == \E c \in Containers, fn \in {Fn("eff", FALSE), Inc, AInc} : tap(c, fn)

NextTap == CreateTap \/ TapAny \/ Jobs

SpecTap == Init /\ [][NextTap]_vars

\* --- SpecWhen: chains of when stages, in both modes
CreateWhen ==
  \/ \E v \in {Num(1), Num(0)} : flow(v)
  \/ flowPromise("fulfilled", Num(1))

WhenAny ==
  \E c \in Containers, condition \in {Bool(TRUE), Bool(FALSE), Fn("isPos", FALSE)},
     thenFn \in {Inc, AInc}, elseFn \in {Undef, Fn("isPos", FALSE)} :
    when(c, condition, thenFn, elseFn)

NextWhen == CreateWhen \/ WhenAny \/ Jobs

SpecWhen == Init /\ [][NextWhen]_vars

\* --- SpecFilter: filter stages and the stages after them, in both modes
CreateFilter ==
  \/ \E v \in {Num(1), Num(0)} : flow(v)
  \/ \E v \in {Num(1), Num(0)} : flowPromise("fulfilled", v)

FilterAny == \E c \in Containers, predicate \in {Fn("isPos", FALSE), Inc} : filter(c, predicate)

MapAfter == \E c \in Containers : map(c, Inc)

NextFilter == CreateFilter \/ FilterAny \/ MapAfter \/ Jobs

SpecFilter == Init /\ [][NextFilter]_vars

\* --- SpecRetry: retry stages on settled, computed and rejected values
CreateRetry ==
  \/ flow(Num(1))
  \/ flowPromise("fulfilled", Num(1))
  \/ flowPromise("rejected", Err("E0"))

\* an async transformer that rejects: on an immediate container the stage
\* holds a rejected promise
PipeRejecting == \E c \in Containers : pipe(c, "pipe", ABoom, <<>>)

MapBefore == \E c \in Containers : map(c, Inc)

RetryAny == \E c \in Containers, attempts \in {0, 1, 2} : retry(c, attempts)

NextRetry == CreateRetry \/ PipeRejecting \/ MapBefore \/ RetryAny \/ Jobs \/ ResumeRetry

SpecRetry == Init /\ [][NextRetry]_vars

\* --- SpecRace: two logical chains that share an immediate container as
\* their head. Each chain registers its own handler on the head and then
\* pipes a failing stage on it: chain A registers hA and pipes boom (E1),
\* chain B registers hB and pipes inc with an extra argument that cannot be
\* read (E3). The chains interleave freely; of two symmetric orders of the
\* registrations the one with chain A first is taken, so that the position
\* of each chain can be read from the head: A has registered when the slot
\* is not the default, B when the slot holds hB.
CreateRace == \E v \in {Num(1), Num(0)} : flow(v)

\* the stages a chain has piped on head c with transformer tr and extra
\* arguments args
PipedOn(c, tr, args) ==
  {f \in Containers : flows[f].src = c /\ flows[f].tr = tr /\ flows[f].args = args}

CatchA == \E c \in Containers : flows[c].errorHandler = noop /\ catch(c, "hA")

CatchB == \E c \in Containers : flows[c].errorHandler.kind = "hA" /\ catch(c, "hB")

PipeA ==
  \E c \in Containers :
    /\ flows[c].errorHandler # noop
    /\ PipedOn(c, Boom, <<>>) = {}
    /\ pipe(c, "pipe", Boom, <<>>)

PipeB ==
  \E c \in Containers :
    /\ flows[c].errorHandler.kind = "hB"
    /\ PipedOn(c, Inc, <<Trap>>) = {}
    /\ pipe(c, "pipe", Inc, <<Trap>>)

NextRace == CreateRace \/ CatchA \/ CatchB \/ PipeA \/ PipeB

SpecRace == Init /\ [][NextRace]_vars

\* --- SpecImmediate: an immediate chain whose transformers return pending
\* computations (async functions, delay, retry), with the jobs and timers
\* those computations run on
CreateImmediate == flow(Num(1))

PipeAsyncFn == \E c \in Containers, tr \in {AInc, ABoom} : pipe(c, "pipe", tr, <<>>)

DelayImmediate == \E c \in Containers : delay(c, 1)

RetryImmediate == \E c \in Containers : retry(c, 1)

MapNext == \E c \in Containers : map(c, Inc)

CatchImmediate == \E c \in Containers : catch(c, "h1")

NextImmediate ==
  \/ CreateImmediate \/ PipeAsyncFn \/ DelayImmediate \/ RetryImmediate \/ MapNext
  \/ CatchImmediate
  \/ ResumeDelay \/ ResumeRetry \/ RunThenJob \/ RunAdopt \/ FireTimer

SpecImmediate == Init /\ [][NextImmediate]_vars

\* ================================================================ claims
\* the operations built on pipe that keep the mode of their container
PipeBased == {"pipe", "tap", "map", "filter", "when", "retry"}

\* the seed container a chain started from
RECURSIVE seedOf(_)
seedOf(f) == IF flows[f].src = 0 THEN f ELSE seedOf(flows[f].src)

\* container f was reached from its seed through pipe-based operations only
RECURSIVE pipeBasedChain(_)
pipeBasedChain(f) ==
  flows[f].src = 0 \/ (flows[f].op \in PipeBased /\ pipeBasedChain(flows[f].src))

\* C1, step: a container returned by a pipe-based operation, on the success
\* path and on the caught-failure path alike, has the mode flag of the
\* container the operation was called on
SameModeAsSource ==
  \A f \in Containers :
    flows[f].op \in PipeBased => flows[f].isAsync = flows[flows[f].src].isAsync

\* C1, chain: after any sequence of pipe-based operations every container of
\* the chain has the mode of its seed
SameModeAsSeed ==
  \A f \in Containers : pipeBasedChain(f) => flows[f].isAsync = flows[seedOf(f)].isAsync

\* C1, frozen: no step changes the mode flag of an existing container
ModeNeverChanges == \A f \in Containers : flows'[f].isAsync = flows[f].isAsync

\* C1 (mode preservation): every pipe-based operation (pipe, tap, map,
\* filter, when, retry) returns a container with the mode flag of the
\* container it was called on, whether the stage succeeded or its failure
\* was caught; so every container of such a chain has the mode of the seed,
\* and no container's mode flag changes after construction.
C1_ModePreservation ==
  /\ [](SameModeAsSource /\ SameModeAsSeed)
  /\ [][ModeNeverChanges]_vars

\* C1 witness: an immediate chain of three containers whose second stage
\* was built by the catch block of pipe and whose third stage succeeded
C1_CaughtThenContinued ==
  \E f, g \in Containers :
    /\ flows[f].op \in PipeBased /\ flows[f].phase = "caught"
    /\ flows[g].src = f /\ flows[g].op \in PipeBased /\ flows[g].phase = "ok"
    /\ ~flows[seedOf(g)].isAsync


\* how many handler invocations on record for container c ended by
\* throwing (threw = TRUE) or by returning (threw = FALSE)
HandlerRuns(c, threw) ==
  Cardinality({i \in 1..Len(flows[c].hlog) : flows[c].hlog[i].threw = threw})

\* the stages of container c that the catch block of pipe built
CaughtStages(c) == {f \in Containers : flows[f].src = c /\ flows[f].phase = "caught"}

\* C2, failure: on an immediate container a stage whose transformer throws
\* (boom raises E1) or whose argument preparation throws (reading the
\* call specification raises E3) is caught with that error, is immediate
\* and has the payload undefined; every caught stage answers to one handler
\* invocation that returned, made with the error of the stage
SyncFailuresCaught ==
  \A c \in Containers : ~flows[c].isAsync =>
    /\ HandlerRuns(c, FALSE) = Cardinality(CaughtStages(c))
    /\ \A f \in Containers : flows[f].src = c =>
         /\ flows[f].tr = Boom /\ flows[f].args = <<>> =>
              flows[f].phase = "caught" /\ flows[f].err = Err("E1") /\ flows[f].calls = 1
         /\ flows[f].args = <<Trap>> =>
              flows[f].phase = "caught" /\ flows[f].err = Err("E3") /\ flows[f].calls = 0
         /\ flows[f].phase = "caught" =>
              /\ ~flows[f].isAsync
              /\ flows[f].value = Undef
              /\ \E i \in 1..Len(flows[c].hlog) :
                   flows[c].hlog[i].e = flows[f].err /\ ~flows[c].hlog[i].threw

\* C2, continuation: a stage piped on a caught container works on undefined
SyncChainContinues ==
  \A f, g \in Containers : flows[f].phase = "caught" /\ flows[g].src = f =>
    /\ flows[g].orig = Undef
    /\ flows[g].calls = 1 => flows[g].callArgs = <<Undef>>
    /\ flows[g].tr = Inc /\ flows[g].args = <<>> =>
         flows[g].phase = "ok" /\ flows[g].value = NaN

\* C2, call: a step that invokes a handler of container c invokes it once,
\* with the handler registered on c at the time of the call; if the
\* handler returns pipe returns the new caught container, and if it throws
\* pipe throws and returns no container
HandlerInvokedOnce ==
  \A c \in Containers : flows'[c].hlog # flows[c].hlog =>
    /\ ~flows[c].isAsync
    /\ Len(flows'[c].hlog) = Len(flows[c].hlog) + 1
    /\ SubSeq(flows'[c].hlog, 1, Len(flows[c].hlog)) = flows[c].hlog
    /\ flows'[c].hlog[Len(flows'[c].hlog)].h = flows[c].errorHandler
    /\ flows'[c].hlog[Len(flows'[c].hlog)].e \in {Err("E1"), Err("E3")}
    /\ IF flows'[c].hlog[Len(flows'[c].hlog)].threw
         THEN /\ flows[c].errorHandler.kind = "hThrow"
              /\ Len(flows') = Len(flows)
              /\ ret' = 0
              /\ thrown' = thrown + 1
         ELSE /\ flows[c].errorHandler.kind # "hThrow"
              /\ Len(flows') = Len(flows) + 1
              /\ ret' = Len(flows')
              /\ thrown' = thrown
              /\ flows'[ret'].src = c
              /\ flows'[ret'].phase = "caught"
              /\ flows'[ret'].err = flows'[c].hlog[Len(flows'[c].hlog)].e

\* the pipe calls that threw are those whose handler threw
PipeThrowsWithHandler ==
  /\ \A c \in Containers : flows[c].isAsync => flows[c].hlog = <<>>
  /\ \/ thrown = 0
     \/ \E c \in Containers : HandlerRuns(c, TRUE) > 0

\* C2 as stated (synchronous failure isolation): when argument preparation
\* or the transformer throws on an immediate container, pipe itself does
\* not throw, the registered handler is invoked exactly once with the
\* error, pipe returns a new immediate container whose payload is
\* undefined, and a stage piped on it runs with undefined as the value.
C2_PipeNeverThrows ==
  /\ thrown = 0
  /\ SyncFailuresCaught
  /\ SyncChainContinues

\* C2 amended: the same, provided the handler returns; when the registered
\* handler itself throws, that error leaves pipe and no container is
\* returned. The handler is, either way, invoked exactly once with the
\* error of the failed stage.
C2_FailureIsolatedIfHandlerReturns ==
  /\ [](SyncFailuresCaught /\ SyncChainContinues /\ PipeThrowsWithHandler)
  /\ [][HandlerInvokedOnce]_vars

\* C2 witness: the handler registered on an immediate seed was invoked for
\* a throwing transformer and returned, and the stage piped on the caught
\* container ran its transformer with undefined
C2_CaughtAndContinued ==
  \E c, f, g \in Containers :
    /\ ~flows[c].isAsync
    /\ flows[c].hlog = <<[h |-> [kind |-> "h1", owner |-> c], e |-> Err("E1"), threw |-> FALSE]>>
    /\ flows[f].src = c /\ flows[f].phase = "caught" /\ flows[f].value = Undef
    /\ flows[g].src = f /\ flows[g].calls = 1 /\ flows[g].callArgs = <<Undef>>


\* the promise get() returns on the deferred container f, as it stands
Awaitable(f) == promises[getValue(Heap, f).v.id]

\* the stage f has run to its end
Settled(f) == flows[f].phase \in {"ok", "rejected"}

\* C3, handler: no handler is invoked for a deferred container, no pipe
\* call on one throws, and its stages are deferred containers wrapping a
\* promise, never the container of the catch block
DeferredNeverCaught ==
  /\ thrown = 0
  /\ \A c \in Containers : flows[c].isAsync =>
       /\ flows[c].hlog = <<>>
       /\ \A f \in Containers : flows[f].src = c =>
            /\ flows[f].isAsync
            /\ flows[f].phase \in {"pending", "awaiting", "ok", "rejected"}
            /\ flows[f].value # Undef
            /\ flows[f].value.t = "promise"

\* C3, failure: a rejected source, a throwing argument preparation (E3), a
\* throwing transformer (boom, E1) and a rejecting transformer (aboom, E2)
\* each end the stage with that error, and the error is the rejection
\* reason of the promise get() returns; until then that promise is pending
DeferredFailuresReject ==
  \A f \in Containers : flows[f].src # 0 /\ flows[flows[f].src].isAsync =>
    /\ Settled(f) => Awaitable(flows[f].src).st # "pending"
    /\ Settled(f) /\ Awaitable(flows[f].src).st = "rejected" =>
         /\ flows[f].phase = "rejected"
         /\ flows[f].err = Awaitable(flows[f].src).v
         /\ flows[f].calls = 0
    /\ Settled(f) /\ Awaitable(flows[f].src).st = "fulfilled" =>
         /\ flows[f].args = <<Trap>> =>
              flows[f].phase = "rejected" /\ flows[f].err = Err("E3") /\ flows[f].calls = 0
         /\ flows[f].tr = Boom /\ flows[f].args = <<>> =>
              flows[f].phase = "rejected" /\ flows[f].err = Err("E1") /\ flows[f].calls = 1
         /\ flows[f].tr = ABoom /\ flows[f].args = <<>> =>
              flows[f].phase = "rejected" /\ flows[f].err = Err("E2") /\ flows[f].calls = 1
         /\ flows[f].tr = Inc /\ flows[f].args = <<>> => flows[f].phase = "ok"
    /\ flows[f].phase = "rejected" =>
         Awaitable(f) = [st |-> "rejected", v |-> flows[f].err, rx |-> <<>>]
    /\ flows[f].phase = "ok" => Awaitable(f).st = "fulfilled"
    /\ ~Settled(f) => Awaitable(f).st = "pending"

\* C3 (deferred failures bypass the handler): when pipe is called on a
\* deferred container and the source rejects, or argument preparation or
\* the transformer throws or rejects, no registered handler is invoked,
\* pipe returns a deferred container, the failure shows only as the
\* rejection of the promise get() returns (and of the stages awaiting it),
\* and the payload is never replaced by undefined.
C3_DeferredFailuresBypassHandler == DeferredNeverCaught /\ DeferredFailuresReject

\* C3 witness: a handler is registered on a deferred seed whose stage was
\* rejected by a throwing transformer, and the stage piped on that one was
\* rejected with the same error without calling its transformer
C3_RejectedBesideHandler ==
  \E c, f, g \in Containers :
    /\ flows[c].isAsync /\ flows[c].errorHandler.kind = "h1"
    /\ flows[f].src = c /\ flows[f].tr = Boom /\ flows[f].phase = "rejected"
    /\ flows[g].src = f /\ flows[g].phase = "rejected" /\ flows[g].err = Err("E1")
    /\ Awaitable(g).st = "rejected"


\* C4, registration: a step that changes the handler of container c changes
\* nothing else (payload, mode, the other containers, the heap), builds no
\* container and returns c itself; the handler is one made for that call
CatchInPlace ==
  \A c \in Containers : flows'[c].errorHandler # flows[c].errorHandler =>
    /\ ret' = c
    /\ flows' = [flows EXCEPT ![c].errorHandler = flows'[c].errorHandler]
    /\ flows'[c].errorHandler.owner = c
    /\ flows'[c].value = flows[c].value /\ flows'[c].isAsync = flows[c].isAsync
    /\ UNCHANGED <<promises, frames, timers, microtasks, currentValue, thrown, got>>

\* C4, fresh: a container built by a chaining operation has the no-op handler
StartsWithNoop ==
  \A f \in 1..Len(flows') : f \notin Containers => flows'[f].errorHandler = noop

\* C4, use: the handler invoked by a failing call on c is the one c holds
\* at that moment, the last one registered on c or the default
InvokesRegistered ==
  \A c \in Containers : Len(flows'[c].hlog) > Len(flows[c].hlog) =>
    /\ flows'[c].hlog[Len(flows'[c].hlog)].h = flows[c].errorHandler
    /\ flows'[c].errorHandler = flows[c].errorHandler

\* C4, scope: every handler a container holds or has invoked is the default
\* or was registered on that very container, and it was invoked for a
\* synchronous failure of a stage called on that container
HandlerStaysLocal ==
  \A c \in Containers :
    /\ flows[c].errorHandler = noop \/ flows[c].errorHandler.owner = c
    /\ \A i \in 1..Len(flows[c].hlog) :
         /\ flows[c].hlog[i].h = noop \/ flows[c].hlog[i].h.owner = c
         /\ ~flows[c].isAsync
         /\ flows[c].hlog[i].threw \/
              \E f \in CaughtStages(c) : flows[f].err = flows[c].hlog[i].e

\* C4 (handler scope): catch(h) returns the same container, payload and
\* mode unchanged, replacing only the handler; h is invoked only for
\* synchronous failures of operations called on that container after the
\* registration; a container built by a chaining operation starts with the
\* no-op handler, so a failure in a later stage never invokes a handler
\* registered on an earlier container.
C4_HandlerScope ==
  /\ []HandlerStaysLocal
  /\ [][CatchInPlace /\ StartsWithNoop /\ InvokesRegistered]_vars

\* C4 witness: a handler is registered on the seed, the stage piped on the
\* seed succeeded, and the throwing stage piped on that stage invoked the
\* default handler of the stage and not the handler of the seed
C4_LaterFailureSkipsHandler ==
  \E c, f, g \in Containers :
    /\ flows[c].errorHandler.kind = "h1" /\ flows[c].hlog = <<>>
    /\ flows[f].src = c /\ flows[f].phase = "ok"
    /\ flows[g].src = f /\ flows[g].phase = "caught"
    /\ flows[f].hlog = <<[h |-> noop, e |-> flows[g].err, threw |-> FALSE]>>


\* the last extra argument of stage f (undefined when there is none)
LastArgument(f) ==
  IF flows[f].args = <<>> THEN Undef ELSE flows[f].args[Len(flows[f].args)]

\* what container f holds once settled: its payload in immediate mode, the
\* value its promise settled to in deferred mode
SettledValue(f) ==
  IF flows[f].isAsync THEN promises[flows[f].value.id].v ELSE flows[f].value

\* the result the transformer of stage f computes from the value pre: inc
\* and ainc add one, a transformer that is no function is the result itself
Computed(f, pre) ==
  IF TypeOf(flows[f].tr) = "function" THEN Plus1(pre).v ELSE flows[f].tr

\* the computed result of stage f is the one its transformer gives for the
\* settled source value; the promise of an async transformer is awaited in
\* deferred mode and is the computed result itself in immediate mode
ComputedFromSource(f) ==
  IF flows[f].tr = AInc /\ ~flows[f].isAsync
    THEN /\ flows[f].res.t = "promise"
         /\ promises[flows[f].res.id] =
              [st |-> "fulfilled", v |-> Computed(f, SettledValue(flows[f].src)), rx |-> <<>>]
    ELSE flows[f].res = Computed(f, SettledValue(flows[f].src))

\* the result of stage f is shaped from the computed result and the
\* pre-transform value as its last extra argument asks
Shaped(f, result, originalValue) ==
  CASE LastArgument(f) = returnOriginal -> SettledValue(f) = originalValue
    [] LastArgument(f) = returnBoth -> SettledValue(f) = Arr(<<result, originalValue>>)
    [] OTHER -> SettledValue(f) = result

\* C5 (sentinel result shaping): for a pipe stage whose transformer does not
\* fail, with the keep-original sentinel last the result is the
\* pre-transform value (the transformer still runs), with the return-both
\* sentinel last it is the pair (computed result, pre-transform value),
\* otherwise it is the computed result; in deferred mode the pre-transform
\* value is the settled source value and the computed result the settled
\* transformer result.
C5_SentinelShaping ==
  \A f \in Containers : flows[f].op = "pipe" /\ flows[f].phase = "ok" =>
    /\ flows[f].isAsync => promises[flows[f].value.id].st = "fulfilled"
    /\ flows[f].orig = SettledValue(flows[f].src)
    /\ ComputedFromSource(f)
    /\ Shaped(f, flows[f].res, SettledValue(flows[f].src))
    /\ flows[f].calls = (IF TypeOf(flows[f].tr) = "function" THEN 1 ELSE 0)

\* C5 witness: two deferred stages on a seed settled to 1, one returning
\* both (the pair of 2 and 1), one keeping the original (1, its
\* transformer having run and computed 2)
C5_BothSentinelsDeferred ==
  \E f, g \in Containers :
    /\ flows[f].isAsync /\ flows[f].phase = "ok" /\ flows[f].args = <<returnBoth>>
    /\ SettledValue(f) = Arr(<<Num(2), Num(1)>>)
    /\ flows[g].isAsync /\ flows[g].phase = "ok" /\ flows[g].args = <<returnOriginal>>
    /\ SettledValue(g) = Num(1) /\ flows[g].calls = 1 /\ flows[g].res = Num(2)


\* the first extra argument of stage f (undefined when there is none)
FirstArgument(f) == IF flows[f].args = <<>> THEN Undef ELSE flows[f].args[1]

\* v is an object with a context field (this) or an array-valued args field
HasCallSpecShape(v) == v.t = "object" /\ (v.this # Undef \/ v.args.t = "array")

\* the binding and the arguments the convention gives stage f
ConventionContext(f) ==
  IF HasCallSpecShape(FirstArgument(f)) /\ FirstArgument(f).this \notin {Undef, Null}
    THEN FirstArgument(f).this
    ELSE Null

ConventionArgs(f) ==
  IF HasCallSpecShape(FirstArgument(f))
    THEN IF FirstArgument(f).args.t = "array" THEN FirstArgument(f).args.items ELSE <<>>
    ELSE <<SettledValue(flows[f].src)>> \o flows[f].args

\* C6 (invocation convention): when the first extra argument of pipe is an
\* object with a context field or an array-valued args field, the
\* transformer is called bound to that context (null by default) with
\* exactly the listed args (none by default), the wrapped value not being
\* added; in every other case it is called bound to null with the value
\* first, followed by all the extra arguments, a trailing sentinel included.
\* The functions self (returns its binding) and inc (adds one to its first
\* argument) show the call in their result.
C6_InvocationConvention ==
  \A f \in Containers : flows[f].op = "pipe" =>
    /\ Settled(f) /\ FirstArgument(f) # Trap => flows[f].calls = 1
    /\ flows[f].calls = 1 =>
         /\ flows[f].context = ConventionContext(f)
         /\ flows[f].callArgs = ConventionArgs(f)
         /\ Settled(f) /\ flows[f].tr = Fn("self", FALSE) =>
              flows[f].res = ConventionContext(f)
         /\ Settled(f) /\ flows[f].tr = Inc =>
              flows[f].res = Plus1(ArgAt(ConventionArgs(f), 1)).v

\* C6 witness: a deferred stage called with a call specification naming a
\* context and one argument, followed by the return-both sentinel: self
\* ran bound to the context with that one argument, and the stage settled
\* to the pair of the context and the wrapped value
C6_BoundToContext ==
  \E f \in Containers :
    /\ flows[f].isAsync /\ flows[f].phase = "ok"
    /\ flows[f].args = <<Obj(Ctx, Arr(<<Num(3)>>), FALSE), returnBoth>>
    /\ flows[f].calls = 1 /\ flows[f].context = Ctx /\ flows[f].callArgs = <<Num(3)>>
    /\ SettledValue(f) = Arr(<<Ctx, Num(1)>>)


\* how a value returned by get() stands: a promise by its state and settled
\* value, anything else by itself
Outcome(v) ==
  IF v.t = "promise" THEN [st |-> promises[v.id].st, v |-> promises[v.id].v]
                     ELSE [st |-> "value", v |-> v]

\* stage f has run to its end, by whichever path
Finished(f) == flows[f].phase \in {"ok", "caught", "rejected"}

\* the transformer of stage f had a value to work on and arguments: the
\* source did not reject, and preparing the arguments did not throw
Runnable(f) ==
  /\ FirstArgument(f) # Trap
  /\ flows[flows[f].src].isAsync => Outcome(flows[flows[f].src].value).st # "rejected"

\* the stages with a callable transformer
Callable == {f \in Containers : flows[f].src # 0 /\ TypeOf(flows[f].tr) = "function"}

\* C7, count: a transformer is never invoked twice; a finished stage has
\* invoked it once if it was runnable and not at all otherwise
InvokedAtMostOnce ==
  \A f \in Callable :
    /\ flows[f].calls <= 1
    /\ Finished(f) => (flows[f].calls = 1 <=> Runnable(f))

\* C7, get: all get() calls on one container gave the same value or
\* awaitables that stand the same; an immediate container gives its
\* payload, a deferred one an awaitable that stands as its payload
GetIdempotent ==
  /\ \A g1, g2 \in got : g1.c = g2.c => Outcome(g1.v) = Outcome(g2.v)
  /\ \A g \in got :
       IF flows[g.c].isAsync
         THEN /\ g.v.t = "promise"
              /\ Outcome(g.v) = (IF flows[g.c].value.t = "promise"
                                   THEN Outcome(flows[g.c].value)
                                   ELSE [st |-> "fulfilled", v |-> flows[g.c].value])
         ELSE g.v = flows[g.c].value

\* C7, steps: get() changes no container, pipe invokes no transformer of an
\* existing stage and leaves its payload alone; the count of a stage moves
\* only from 0 to 1, in a step of its own pending computation
NoReinvocation ==
  /\ got' # got => flows' = flows
  /\ \A f \in Containers :
       /\ Len(flows') > Len(flows) =>
            flows'[f].calls = flows[f].calls /\ flows'[f].value = flows[f].value
       /\ flows'[f].calls # flows[f].calls =>
            flows[f].calls = 0 /\ flows'[f].calls = 1 /\ flows[f].phase = "pending"

\* C7 as stated (exactly-once execution): each stage's callable transformer
\* is invoked exactly once per pipe call, and get() is idempotent.
C7_ExactlyOncePerStage ==
  /\ \A f \in Callable : Finished(f) => flows[f].calls = 1
  /\ GetIdempotent

\* C7 amended: each stage's callable transformer is invoked at most once,
\* exactly once when the source value arrives and the arguments can be
\* prepared, and never when the deferred source rejects or argument
\* preparation throws; get() and further stages on the same container
\* invoke no transformer again, and all get() calls on one container give
\* the same value or awaitables settling to the same outcome.
C7_AtMostOnceAndIdempotentGet ==
  /\ [](InvokedAtMostOnce /\ GetIdempotent)
  /\ [][NoReinvocation]_vars

\* C7 witness: a deferred stage that ran its transformer once, on which
\* get() was called twice and a further stage was piped and has finished
C7_ResolvedTwiceAndPipedOn ==
  \E f, g \in Containers :
    /\ flows[f].isAsync /\ flows[f].src # 0 /\ flows[f].phase = "ok" /\ flows[f].calls = 1
    /\ Cardinality({x \in got : x.c = f}) = 2
    /\ flows[g].src = f /\ flows[g].phase = "ok"


\* the three steps of a stage: argument preparation, transformer call,
\* result shaping
Steps == {"prepare", "execute", "shape"}

\* C8, deferred: a stage of a deferred container had done none of the steps
\* when pipe returned, and has done none and called nothing while its
\* pending computation has not been resumed
DeferredRunsLater ==
  \A f \in Containers : flows[f].src # 0 /\ flows[flows[f].src].isAsync =>
    /\ flows[f].eager = {}
    /\ flows[f].phase = "pending" => flows[f].done = {} /\ flows[f].calls = 0
    /\ flows[f].phase = "ok" => flows[f].done = Steps

\* C8, immediate: a stage of an immediate container did everything it ever
\* does before pipe returned, all three steps if it did not fail
ImmediateRunsInPipe ==
  \A f \in Containers : flows[f].src # 0 /\ ~flows[flows[f].src].isAsync =>
    /\ flows[f].eager = flows[f].done
    /\ flows[f].phase \in {"ok", "caught"}
    /\ flows[f].phase = "ok" => flows[f].done = Steps

\* C8, return: the step in which pipe returns a stage of a deferred
\* container leaves the stage with no step done, its promise pending and
\* its continuation queued or waiting, whatever the state of the source
PipeReturnsFirst ==
  \A c \in Containers : flows[c].isAsync /\ Len(flows') > Len(flows) /\ flows'[Len(flows')].src = c =>
    /\ ret' = Len(flows')
    /\ flows'[ret'].phase = "pending"
    /\ flows'[ret'].done = {} /\ flows'[ret'].calls = 0
    /\ promises'[flows'[ret'].value.id].st = "pending"

\* C8 (deferred stages do not run inside pipe): on a deferred container
\* argument preparation, the transformer call and result shaping all
\* happen after pipe has returned the new container, even when the source
\* payload is already settled; on an immediate container all three
\* complete before pipe returns.
C8_DeferredStagesRunAfterPipe ==
  /\ [](DeferredRunsLater /\ ImmediateRunsInPipe)
  /\ [][PipeReturnsFirst]_vars

\* C8 witness: pipe has just returned a stage of a deferred seed whose
\* promise was already fulfilled, and the stage has done nothing yet
C8_ReturnedBeforeRunning ==
  \E f \in Containers :
    /\ ret = f /\ flows[f].src # 0 /\ flows[flows[f].src].isAsync
    /\ promises[flows[flows[f].src].value.id].st = "fulfilled"
    /\ TypeOf(flows[f].tr) = "function"
    /\ flows[f].phase = "pending" /\ flows[f].done = {} /\ flows[f].calls = 0


\* C9 (delay is an unconditional deferral boundary): for every container,
\* immediate or deferred, delay(ms) returns a container in deferred mode,
\* and the stages piped after it operate on the settled value, not on the
\* promise of the delay.
C9_DelayAlwaysDeferred ==
  \A f \in Containers : flows[f].op = "delay" =>
    /\ flows[f].isAsync
    /\ \A g \in Containers : flows[g].src = f /\ flows[g].calls = 1 =>
         flows[g].orig.t # "promise"

\* C9 failing state: delay on an immediate container returned an immediate
\* container wrapping the promise of the delay, and the map(inc) piped on
\* it was applied to that promise (inc gives a string)
C9_ImmediateDelay ==
  \E f, g \in Containers :
    /\ flows[f].op = "delay" /\ ~flows[f].isAsync /\ flows[f].value.t = "promise"
    /\ flows[g].src = f /\ flows[g].op = "map" /\ ~flows[g].isAsync
    /\ flows[g].orig = flows[f].value /\ flows[g].value = Str


\* the containers the factory built
Seeds == {c \in Containers : flows[c].op = "flow"}

\* v is a Promise, or a function declared async
PendingOrAsyncShaped(v) ==
  \/ v.t = "promise"
  \/ v.t = "function" /\ v.async

\* C10, seeds: a seed container is deferred exactly when its seed is a
\* Promise or an async function
ClassifiedBySeed == \A c \in Seeds : flows[c].isAsync <=> PendingOrAsyncShaped(flows[c].value)

\* C10, example: an async transformer adding one, piped on a container
\* seeded with a promise resolved to 1, gives a deferred container that
\* resolves to 2
AsyncStageOnResolvedSeed ==
  \A c \in Seeds, f \in Containers :
    /\ flows[c].value.t = "promise"
    /\ promises[flows[c].value.id].st = "fulfilled"
    /\ flows[f].src = c /\ flows[f].tr = AInc
    => /\ flows[f].isAsync
       /\ flows[f].value.t = "promise"
       /\ promises[flows[f].value.id].st \in {"pending", "fulfilled"}
       /\ Finished(f) => promises[flows[f].value.id].v = Num(2)

\* C10, once: no step changes the mode or the seed of an existing container
ClassifiedOnce ==
  \A c \in Containers :
    flows'[c].isAsync = flows[c].isAsync /\ flows'[c].value = flows[c].value

\* C10 (factory classification): flow(seed) builds a deferred container
\* exactly when the seed is a Promise or an async function and an immediate
\* one for every other seed, once and for all at construction; an async
\* transformer piped on a container seeded with a resolved Promise of 1
\* gives a deferred container that resolves to 2.
C10_FactoryClassification ==
  /\ [](ClassifiedBySeed /\ AsyncStageOnResolvedSeed)
  /\ [][ClassifiedOnce]_vars

\* C10 witness: the example has run to its end beside an immediate
\* container seeded with a thenable that is no Promise
C10_ResolvedToTwo ==
  \E c, t \in Seeds, f \in Containers :
    /\ flows[c].isAsync /\ flows[c].value.t = "promise"
    /\ flows[f].src = c /\ flows[f].tr = AInc /\ flows[f].isAsync
    /\ promises[flows[f].value.id] = [st |-> "fulfilled", v |-> Num(2), rx |-> <<>>]
    /\ flows[t].value = Thenable /\ ~flows[t].isAsync


ConditionHolds(f, v) ==
  IF TypeOf(flows[f].tr.cap.condition) = "function"
    THEN GreaterThanZero(v)
    ELSE flows[f].tr.cap.condition.b

\* the branch function the when stage f has to call for the value v
\* (undefined: none)
BranchOf(f, v) ==
  IF ConditionHolds(f, v) THEN flows[f].tr.cap.thenFn ELSE flows[f].tr.cap.elseFn

\* the calls the closure of the when stage f has to make for the value v
BranchCalls(f, v) ==
  (IF TypeOf(flows[f].tr.cap.condition) = "function"
     THEN <<[fn |-> "condition", arg |-> v]>> ELSE <<>>)
  \o (IF BranchOf(f, v) = Undef THEN <<>>
      ELSE <<[fn |-> IF ConditionHolds(f, v) THEN "thenFn" ELSE "elseFn", arg |-> v]>>)

\* the result of the when stage f is what its branch gives for v: v + 1
\* for inc and the async ainc (a promise of it in immediate mode, where
\* nothing is awaited), v > 0 for isPos, and v itself without a branch
BranchResult(f, v) ==
  CASE BranchOf(f, v) = Undef -> SettledValue(f) = v
    [] BranchOf(f, v) = Inc -> SettledValue(f) = Plus1(v).v
    [] BranchOf(f, v) = Fn("isPos", FALSE) -> SettledValue(f) = Bool(GreaterThanZero(v))
    [] BranchOf(f, v) = AInc ->
         IF flows[f].isAsync
           THEN SettledValue(f) = Plus1(v).v
           ELSE /\ flows[f].value.t = "promise"
                /\ Outcome(flows[f].value) = [st |-> "fulfilled", v |-> Plus1(v).v]

\* C12 (when selects exactly one branch): when the stage executes the
\* condition, if it is a predicate, is applied once to the current value;
\* if it is true only thenFn is invoked, with the value, and its result
\* is the stage result; if it is false only elseFn is, when supplied, and
\* without elseFn no branch function is invoked and the value is forwarded.
C12_WhenSelectsOneBranch ==
  \A f \in Containers : flows[f].op = "when" /\ Finished(f) =>
    /\ flows[f].phase = "ok"
    /\ flows[f].calls = 1
    /\ flows[f].ev = BranchCalls(f, SettledValue(flows[f].src))
    /\ BranchResult(f, SettledValue(flows[f].src))

\* C12 witness: on a deferred seed settled to 1 a when stage with a false
\* condition and no elseFn forwarded 1 without calling anything, and the
\* stage after it, whose predicate holds, called thenFn and settled to 2
C12_ForwardedThenBranched ==
  \E f, g \in Containers :
    /\ flows[f].op = "when" /\ flows[f].isAsync /\ flows[f].phase = "ok"
    /\ flows[f].tr.cap.condition = Bool(FALSE) /\ flows[f].tr.cap.elseFn = Undef
    /\ flows[f].ev = <<>> /\ SettledValue(f) = Num(1)
    /\ flows[g].op = "when" /\ flows[g].src = f /\ flows[g].phase = "ok"
    /\ flows[g].ev = <<[fn |-> "condition", arg |-> Num(1)], [fn |-> "thenFn", arg |-> Num(1)]>>
    /\ SettledValue(g) = Num(2)


\* what the predicate of the filter stage f gives for the value v: v > 0
\* for isPos, and for inc the truthiness of v + 1
PredicateHolds(f, v) ==
  IF flows[f].tr.cap.predicate = Inc THEN Truthy(Plus1(v).v) ELSE GreaterThanZero(v)

\* C13 (filter substitutes and never ends the chain): a filter stage
\* yields the unchanged value when its predicate holds of the value and
\* null when it does not, in a container of the mode of its source; the
\* stage piped after it still runs, with null after a filter that did not
\* match (v => v + 1 then gives 1).
C13_FilterSubstitutesNull ==
  \A f \in Containers : flows[f].op = "filter" =>
    /\ flows[f].isAsync = flows[flows[f].src].isAsync
    /\ Finished(f) =>
         /\ flows[f].phase = "ok"
         /\ flows[f].ev = <<[fn |-> "predicate", arg |-> SettledValue(flows[f].src)]>>
         /\ SettledValue(f) = (IF PredicateHolds(f, SettledValue(flows[f].src))
                                 THEN SettledValue(flows[f].src) ELSE Null)
         /\ \A g \in Containers : flows[g].src = f /\ Finished(g) =>
              /\ flows[g].phase = "ok" /\ flows[g].calls = 1
              /\ flows[g].callArgs = <<SettledValue(f)>>
              /\ flows[g].op = "map" /\ SettledValue(f) = Null => SettledValue(g) = Num(1)

\* C13 witness: on a deferred seed settled to 0 the filter v > 0 settled to
\* null, and the map piped after it ran with null and settled to 1
C13_NullStaysInChain ==
  \E f, g \in Containers :
    /\ flows[f].op = "filter" /\ flows[f].isAsync /\ flows[f].phase = "ok"
    /\ SettledValue(flows[f].src) = Num(0) /\ SettledValue(f) = Null
    /\ flows[g].op = "map" /\ flows[g].src = f /\ flows[g].isAsync
    /\ flows[g].callArgs = <<Null>> /\ SettledValue(g) = Num(1)


\* the stages upstream of container f in the sequence fl of containers
RECURSIVE UpstreamIn(_, _)
UpstreamIn(fl, f) ==
  IF fl[f].src = 0 THEN {} ELSE {fl[f].src} \cup UpstreamIn(fl, fl[f].src)

Upstream(f) == UpstreamIn(flows, f)

RetryStages == {f \in Containers : flows[f].op = "retry"}

\* C14 as stated (retry never recomputes): the invocation count of every
\* earlier stage's transformer is the same before the retry stage is piped
\* and after it has settled; counts only grow, so no step from the pipe
\* call on changes the count of a stage upstream of a retry stage.
C14_UpstreamCountsFrozen ==
  [][\A f \in 1..Len(flows') : flows'[f].op = "retry" =>
       \A a \in UpstreamIn(flows', f) : flows'[a].calls = flows[a].calls]_vars

\* C14, order: when a retry stage executes, every stage upstream of it has
\* finished, and no transformer has been invoked twice
RetryRunsAfterUpstream ==
  /\ \A f \in Containers : flows[f].calls <= 1
  /\ \A f \in RetryStages : flows[f].calls = 1 =>
       \A a \in Upstream(f) : flows[a].src = 0 \/ Finished(a)

\* C14, steps: a step of a retry stage (the pipe call that builds it, the
\* start of its closure, an attempt) changes the invocation count of no
\* other stage, and the count of a finished stage never changes
RetryInvokesNothing ==
  /\ \A a \in Containers : Finished(a) => flows'[a].calls = flows[a].calls
  /\ (\/ Len(flows') > Len(flows) /\ flows'[Len(flows')].op = "retry"
      \/ \E f \in RetryStages : flows'[f] # flows[f]
      \/ \E fr \in 1..Len(frames) : frames[fr].kind = "retry" /\ frames'[fr] # frames[fr])
     => \A a \in Containers : flows[a].op # "retry" => flows'[a].calls = flows[a].calls

\* C14 amended: executing retry(attempts) invokes no upstream transformer:
\* the steps of a retry stage change no other stage's invocation count,
\* the retry closure starts only when every upstream stage has finished,
\* and no transformer is ever invoked twice. (An upstream stage of a
\* deferred chain that had not run yet when retry was piped still runs,
\* once, before the retry stage executes.)
C14_RetryInvokesNoUpstream ==
  /\ []RetryRunsAfterUpstream
  /\ [][RetryInvokesNothing]_vars

\* C14 witness: in a deferred chain the map stage has run once and the
\* retry stage piped on it has made its attempt and settled
C14_RetrySettledAfterMap ==
  \E a, f \in Containers :
    /\ flows[a].op = "map" /\ flows[a].isAsync /\ flows[a].calls = 1
    /\ flows[f].op = "retry" /\ flows[f].src = a /\ flows[f].tr.cap.attempts = 2
    /\ flows[f].phase = "ok" /\ SettledValue(f) = Num(2)


\* ---------------------------------------------------------------- C15
\* the pending computations of the retry closure invoked for stage f
RetryFrames(f) ==
  {fr \in 1..Len(frames) : frames[fr].kind = "retry" /\ frames[fr].stage = f}

\* the retry stages whose source container holds a rejection
RetryOnRejection ==
  {f \in RetryStages : Outcome(flows[flows[f].src].value).st = "rejected"}

\* the error the source container of stage f rejected with
SourceError(f) == Outcome(flows[flows[f].src].value).v

Attempts(f) == flows[f].tr.cap.attempts

\* C15 as stated (retry on a rejected value): in immediate and in deferred
\* mode a finished retry(attempts) stage on a rejected value has observed
\* the rejection attempts times and its result is a rejection with the
\* original error.
C15_ObservedAttemptsTimes ==
  \A f \in RetryOnRejection : Finished(f) =>
    /\ \E fr \in RetryFrames(f) : frames[fr].i = Attempts(f)
    /\ Outcome(flows[f].value) = [st |-> "rejected", v |-> SourceError(f)]

\* C15, immediate mode: the closure is invoked once with the rejected
\* promise; with attempts >= 1 it observes the rejection once per attempt,
\* never more than attempts times, and after the last one its promise, the
\* payload of the stage, rejects with the original error; with
\* attempts <= 0 no attempt is made and the payload fulfils with undefined
RetryObservesImmediate ==
  \A f \in RetryOnRejection : ~flows[flows[f].src].isAsync =>
    /\ flows[f].calls = 1
    /\ flows[f].orig = flows[flows[f].src].value
    /\ IF Attempts(f) >= 1
         THEN /\ Cardinality(RetryFrames(f)) = 1
              /\ \A fr \in RetryFrames(f) :
                   /\ frames[fr].p = flows[f].value.id
                   /\ frames[fr].i <= Attempts(f)
                   /\ IF frames[fr].pc = "done"
                        THEN /\ frames[fr].i = Attempts(f)
                             /\ Outcome(flows[f].value) =
                                  [st |-> "rejected", v |-> SourceError(f)]
                        ELSE Outcome(flows[f].value).st = "pending"
         ELSE /\ RetryFrames(f) = {}
              /\ Outcome(flows[f].value) = [st |-> "fulfilled", v |-> Undef]

\* C15, deferred mode: awaiting the source throws before the closure is
\* invoked, so no attempt observes the rejection; the stage rejects with
\* the original error whatever attempts is
RetrySkippedDeferred ==
  \A f \in RetryOnRejection : flows[flows[f].src].isAsync =>
    /\ flows[f].calls = 0
    /\ RetryFrames(f) = {}
    /\ Finished(f) =>
         /\ flows[f].phase = "rejected"
         /\ Outcome(flows[f].value) = [st |-> "rejected", v |-> SourceError(f)]

\* C15 amended: a retry(attempts) stage on a rejected value rejects with
\* the original error, except in immediate mode with attempts <= 0, where
\* it fulfils with undefined; the rejection is observed attempts times in
\* immediate mode and not at all in deferred mode, where the closure is
\* never invoked.
C15_RetryOnRejection ==
  /\ RetryObservesImmediate
  /\ RetrySkippedDeferred

\* an immediate retry(2) on a rejected value has made both attempts and
\* rejected
C15_RetriedTwiceAndRejected ==
  \E f \in RetryOnRejection :
    /\ ~flows[f].isAsync
    /\ Attempts(f) = 2
    /\ \E fr \in RetryFrames(f) : frames[fr].pc = "done" /\ frames[fr].i = 2
    /\ Outcome(flows[f].value).st = "rejected"


\* ---------------------------------------------------------------- C20
\* the retry stages whose source container holds a value that is no
\* rejection: a plain value, or a fulfilled pending computation
RetryOnValue ==
  {f \in RetryStages : Outcome(flows[flows[f].src].value).st \in {"value", "fulfilled"}}

\* the non-failing value the source container of stage f holds
SourceValue(f) == Outcome(flows[flows[f].src].value).v

\* C20, attempts: with attempts >= 1 the closure makes one attempt, which
\* observes no rejection; with attempts <= 0 it makes none
RetrySingleAttempt ==
  \A f \in RetryOnValue :
    /\ ~flows[flows[f].src].isAsync \/ Finished(f) => flows[f].calls = 1
    /\ IF Attempts(f) >= 1
         THEN /\ Cardinality(RetryFrames(f)) = flows[f].calls
              /\ \A fr \in RetryFrames(f) : frames[fr].i = 0
         ELSE RetryFrames(f) = {}

\* C20, result: the stage never fails; once settled its result is the
\* source's value when attempts >= 1 and undefined otherwise
RetryForwards ==
  \A f \in RetryOnValue :
    /\ flows[f].phase \notin {"caught", "rejected"}
    /\ Outcome(flows[f].value).st \in {"pending", "fulfilled"}
    /\ Outcome(flows[f].value).st = "fulfilled" =>
         Outcome(flows[f].value).v = IF Attempts(f) >= 1 THEN SourceValue(f) ELSE Undef

\* C20 (retry forwards a non-failing value only when attempts >= 1): on a
\* value that is no rejection retry(attempts) settles to that same value
\* after a single attempt when attempts >= 1; with attempts <= 0 the loop
\* never runs and the stage settles to undefined, without any error.
C20_RetryForwardsFromOneAttempt ==
  /\ RetrySingleAttempt
  /\ RetryForwards
  /\ thrown = 0

\* retry(1) has forwarded a value and retry(0) on the same container has
\* lost it
C20_ForwardedAndLost ==
  \E f, g \in RetryOnValue :
    /\ flows[f].src = flows[g].src
    /\ Attempts(f) = 1 /\ Attempts(g) = 0
    /\ Outcome(flows[f].value) = [st |-> "fulfilled", v |-> SourceValue(f)]
    /\ Outcome(flows[g].value) = [st |-> "fulfilled", v |-> Undef]
    /\ SourceValue(f) # Undef


\* ---------------------------------------------------------------- C16
\* the stages piped on a deferred container
DeferredStages == {g \in Containers : flows[g].src # 0 /\ flows[flows[g].src].isAsync}

\* the payload of deferred container f has settled with a value
PayloadFulfilled(f) == promises[flows[f].value.id].st = "fulfilled"

\* C16, order: a transformer that has been invoked in a deferred chain was
\* handed the settled payload of its source, every stage before it has run
\* to its end, and the value it was handed is no pending computation
InvokedInChainOrder ==
  \A g \in DeferredStages : flows[g].calls >= 1 =>
    /\ PayloadFulfilled(flows[g].src)
    /\ flows[g].orig = SettledValue(flows[g].src)
    /\ flows[g].orig.t # "promise"
    /\ \A a \in Upstream(g) : flows[a].src # 0 => flows[a].phase = "ok"

\* C16, exclusion: while the seed's payload is pending, or a stage has not
\* started or is suspended on the pending result of its transformer, no
\* later stage of the chain has started
OneStageAtATime ==
  \A g \in DeferredStages : \A a \in Upstream(g) :
    (\/ flows[a].src = 0 /\ promises[flows[a].value.id].st = "pending"
     \/ flows[a].src # 0 /\ flows[a].phase \in {"pending", "awaiting"})
    => flows[g].phase = "pending" /\ flows[g].calls = 0 /\ flows[g].done = {}

\* C16, step: a step invokes the transformer of at most one stage, and the
\* payload of that stage's deferred source had settled before the step
InvokedAfterSourceSettled ==
  /\ Cardinality({g \in Containers : flows'[g].calls > flows[g].calls}) <= 1
  /\ \A g \in DeferredStages : flows'[g].calls > flows[g].calls =>
       /\ PayloadFulfilled(flows[g].src)
       /\ flows'[g].orig = SettledValue(flows[g].src)

\* C16 (sequential stages in a deferred chain): transformers are invoked in
\* chain order, stage k+1 only after the result of stage k, a pending
\* result of its transformer included, has settled, with that settled
\* value; no two transformers of a chain run at once.
C16_DeferredStagesSequential ==
  /\ [](InvokedInChainOrder /\ OneStageAtATime)
  /\ [][InvokedAfterSourceSettled]_vars

\* the second stage of a deferred chain has been invoked with the settled
\* result of an async first stage
C16_SecondStageGotSettledResult ==
  \E g \in DeferredStages :
    /\ flows[g].calls = 1
    /\ flows[flows[g].src].src # 0
    /\ flows[flows[g].src].tr = AInc
    /\ flows[flows[g].src].args = <<>>
    /\ flows[g].orig = Num(2)


\* ---------------------------------------------------------------- C18
\* the deferred containers (seeds and stages) whose payload has rejected
RejectedDeferred ==
  {a \in Containers : flows[a].isAsync /\ Outcome(flows[a].value).st = "rejected"}

\* the pending computations of the closure of stage f (delay, retry)
ClosureFrames(f) ==
  {fr \in 1..Len(frames) : frames[fr].kind \in {"delay", "retry"} /\ frames[fr].stage = f}

\* C18, invocation: after a rejection upstream, the transformer of a stage
\* is never invoked: its count stays 0, its closure has called no effect,
\* predicate, condition or branch and has started no timer or attempt, and
\* no error handler is invoked
NothingRunsAfterRejection ==
  \A f \in Containers : \A a \in Upstream(f) \cap RejectedDeferred :
    /\ flows[f].calls = 0
    /\ flows[f].ev = <<>>
    /\ flows[f].done = {}
    /\ ClosureFrames(f) = {}
    /\ flows[f].phase \in {"pending", "rejected"}
    /\ flows[a].hlog = <<>>

\* C18, propagation: a finished stage downstream of a rejection has rejected
\* with the same error, and get() on it returns that rejected promise
RejectionPropagates ==
  \A f \in Containers : \A a \in Upstream(f) \cap RejectedDeferred :
    /\ Outcome(flows[f].value).st \in {"pending", "rejected"}
    /\ Finished(f) =>
         /\ Outcome(flows[f].value) = Outcome(flows[a].value)
         /\ flows[f].err = Outcome(flows[a].value).v
         /\ getValue(Heap, f).v = flows[f].value

\* C18 (rejection short-circuits a deferred chain): once the seed or a
\* stage of a deferred chain has rejected with e, no transformer of a later
\* stage is invoked (tap effects, when branches, filter predicates and
\* retry attempts included), every later payload rejects with e, and get()
\* rejects with e.
C18_RejectionShortCircuits ==
  /\ NothingRunsAfterRejection
  /\ RejectionPropagates

\* two stages after a rejected seed have both rejected with the seed's
\* error without running
C18_TwoStagesSkipped ==
  \E f \in Containers :
    /\ flows[f].src # 0 /\ flows[flows[f].src].src # 0
    /\ flows[flows[flows[f].src].src].src = 0
    /\ flows[flows[f].src].src \in RejectedDeferred
    /\ TypeOf(flows[f].tr) = "function" /\ TypeOf(flows[flows[f].src].tr) = "function"
    /\ Outcome(flows[f].value) = [st |-> "rejected", v |-> Err("E0")]
    /\ flows[f].calls = 0 /\ flows[flows[f].src].calls = 0


\* ---------------------------------------------------------------- C17
\* the handler chain A (hA) or chain B (hB) registers on head c
HandlerOf(kind, c) == [kind |-> kind, owner |-> c]

\* C17, slot: a container holds one handler; each failing pipe on it has
\* invoked one handler, and a handler of chain B is in the slot or on
\* record only where chain A had registered first
SingleSlot ==
  \A c \in Containers :
    /\ flows[c].errorHandler \in {noop, HandlerOf("hA", c), HandlerOf("hB", c)}
    /\ Len(flows[c].hlog) = Cardinality(CaughtStages(c))
    /\ \A i \in 1..Len(flows[c].hlog) :
         flows[c].hlog[i].h \in {HandlerOf("hA", c), HandlerOf("hB", c)}

\* C17, registration: catch replaces the handler in the slot, and invokes
\* none
CatchOverwrites ==
  \A c \in Containers : flows'[c].errorHandler # flows[c].errorHandler =>
    /\ flows'[c].errorHandler.owner = c
    /\ flows'[c].hlog = flows[c].hlog
    /\ Len(flows') = Len(flows)

\* C17, delivery: a pipe call on c that fails delivers the error of its
\* stage to the handler the slot of c holds when pipe is called, whichever
\* chain made the call, and to no other
DeliveredToSlot ==
  Len(flows') > Len(flows) /\ flows'[Len(flows')].phase = "caught" =>
    /\ flows'[flows'[Len(flows')].src].hlog =
         Append(flows[flows'[Len(flows')].src].hlog,
                [h |-> flows[flows'[Len(flows')].src].errorHandler,
                 e |-> flows'[Len(flows')].err, threw |-> FALSE])
    /\ \A c \in Containers : c # flows'[Len(flows')].src => flows'[c].hlog = flows[c].hlog

\* C17 (shared-head handler race): a container holds a single handler slot
\* and a failing pipe invokes the handler most recently registered on the
\* container at the time of the pipe call; hence, when two interleaved
\* chains register their own handlers on a shared immediate head, one
\* chain's synchronous failure can be delivered to the other chain's
\* handler and not to its own.
C17_SharedHeadHandlerRace ==
  /\ []SingleSlot
  /\ [][CatchOverwrites /\ DeliveredToSlot]_vars

\* chain A registered hA on the head, chain B then registered hB, and the
\* failure E1 of chain A's pipe was delivered to hB and never to hA
C17_FailureWentToOtherChain ==
  \E c \in Containers :
    /\ ~flows[c].isAsync
    /\ flows[c].errorHandler = HandlerOf("hB", c)
    /\ \E f \in PipedOn(c, Boom, <<>>) : flows[f].phase = "caught" /\ flows[f].err = Err("E1")
    /\ \E i \in 1..Len(flows[c].hlog) :
         flows[c].hlog[i] = [h |-> HandlerOf("hB", c), e |-> Err("E1"), threw |-> FALSE]
    /\ \A i \in 1..Len(flows[c].hlog) : flows[c].hlog[i].h # HandlerOf("hA", c)


\* ---------------------------------------------------------------- C19
\* the transformer of stage f returns a pending computation: an async
\* function, or the closure of delay or retry
ReturnsPending(f) == TypeOf(flows[f].tr) = "function" /\ flows[f].tr.async

\* C19, mode: a stage piped on an immediate container is immediate and ran
\* inside pipe on the payload of its source as it was; when its
\* transformer returned a pending computation, that computation itself is
\* the payload and what get() returns; nothing is suspended in pipe
StaysImmediate ==
  /\ \A fr \in 1..Len(frames) : frames[fr].kind # "transform"
  /\ \A f \in Containers : flows[f].src # 0 =>
       /\ ~flows[f].isAsync
       /\ flows[f].phase = "ok" /\ flows[f].calls = 1 /\ flows[f].eager = Steps
       /\ flows[f].orig = flows[flows[f].src].value
       /\ IF ReturnsPending(f)
            THEN /\ flows[f].value.t = "promise"
                 /\ flows[f].value = flows[f].res
                 /\ getValue(Heap, f).v = flows[f].value
            ELSE flows[f].value = Plus1(flows[f].orig).v

\* C19, failure: a payload that rejects stays the payload; no handler is
\* invoked for it and no pipe call throws
RejectionStaysInPayload ==
  /\ thrown = 0
  /\ \A c \in Containers :
       /\ flows[c].hlog = <<>>
       /\ flows[c].src # 0 => flows[c].value # Undef /\ flows[c].err = Undef

\* C19, step: the pipe call that builds a stage invokes its transformer
\* with the payload of the source as pipe finds it, settles no promise and
\* fires no timer
InvokedAtOnce ==
  Len(flows') > Len(flows) /\ flows'[Len(flows')].src # 0 =>
    /\ flows'[Len(flows')].calls = 1
    /\ flows'[Len(flows')].orig = flows[flows'[Len(flows')].src].value
    /\ \A p \in 1..Len(promises) : promises'[p].st = promises[p].st
    /\ SubSeq(timers', 1, Len(timers)) = timers
    /\ SubSeq(microtasks', 1, Len(microtasks)) = microtasks

\* C19 (an immediate chain never awaits): when a transformer piped on an
\* immediate container returns a pending computation, the new container is
\* immediate with that computation as payload; get() returns it, the next
\* transformer is invoked at once with it, before it settles and before a
\* delay timer fires, and its later rejection reaches no handler and is not
\* replaced by undefined.
C19_ImmediateNeverAwaits ==
  /\ [](StaysImmediate /\ RejectionStaysInPayload)
  /\ [][InvokedAtOnce]_vars

\* map was applied to the promise of a delay whose timer has not fired, on
\* a container that has a handler registered
C19_MappedPendingDelay ==
  \E f, g \in Containers :
    /\ flows[f].op = "delay" /\ ~flows[f].isAsync
    /\ flows[f].errorHandler.kind = "h1"
    /\ Outcome(flows[f].value).st = "pending" /\ timers # <<>>
    /\ flows[g].src = f /\ flows[g].op = "map"
    /\ flows[g].calls = 1 /\ flows[g].orig = flows[f].value /\ flows[g].value = Str
====
